---- MODULE Spec2Model ----
(***************************************************************************)
(* State-machine model of the USMLE quiz generator's client-side core:     *)
(* the session controller and persistence wiring of src/App.tsx and the    *)
(* DatabaseService of src/unnamed/part_001 (services/databaseService.ts).  *)
(*                                                                         *)
(* React state is modelled by one variable per useState cell.  A handler   *)
(* is one action: the state updates it queues, the re-render and the       *)
(* effects that re-render triggers (the sync effects of App.tsx:83-87 and  *)
(* the session mirror of App.tsx:89-92) happen in the same step, because   *)
(* JavaScript runs them to completion before the next event is taken.      *)
(* Every await is a step boundary: the continuation is an action of its    *)
(* own.  IndexedDB runs the requests of one page in the order they were    *)
(* issued, so a get or put takes effect in the step that issues it.        *)
(*                                                                         *)
(* Backup and restore are the Data Vault handlers of                       *)
(* src/unnamed/part_003 (components/AnalyticsView.tsx).                    *)
(*                                                                         *)
(* Presentational state (isDarkMode, isExporting, backgroundProcessing,    *)
(* hasKey, completedSession) and the inert filter criteria of a session    *)
(* (specialties, examTypes, complexity, topics, skippedIds) are left out.  *)
(***************************************************************************)
EXTENDS Integers, Sequences, FiniteSets, Bags, TLC

VARIABLES
    view,              \* App.tsx:26  (only 'setup' | 'quiz' | 'results' | 'analytics' are used)
    isReady,           \* App.tsx:27
    session,           \* App.tsx:30  QuizSession | null
    isLoading,         \* App.tsx:32  with the arguments of the startQuiz call in flight
    selectedAnswer,    \* App.tsx:34
    bookmarks,         \* App.tsx:37
    masteryCards,      \* App.tsx:38
    history,           \* App.tsx:39
    srsStates,         \* App.tsx:40
    questionLibrary,   \* App.tsx:41
    studyPlan,         \* App.tsx:42
    lifetimeStats,     \* App.tsx:43
    localStorage,      \* the 'abdu_active_session' entry of window.localStorage
    db,                \* the 'kv' object store of IndexedDB: slot -> value
    clock,             \* Date.now(): it advances whenever a session is created
    remediations,      \* bag of generateSimilarQuestions calls in flight (App.tsx:271)
    saves,             \* set of processSessionCompletion calls in flight (App.tsx:308)
    importTask,        \* the fullImport call in flight (part_001:109)
    backup,            \* the last payload backupAllData returned (part_001:104)
    imported,          \* the payload of the last fullImport that returned true
    submitted,         \* the payload of the last fullImport call
    alerted,           \* the message window.alert showed in the last step, "" if none
    fetch,             \* the fetchWithRetry call of the generator client (part_002:5)
    dissects,          \* set of generateMasteryCards calls in flight (App.tsx:180)
    reloads,           \* number of page reloads so far
    form,              \* the selections of the QuizSetup form (QuizSetup.tsx:29-34)
    migrated,          \* history variable: initData found history and no lifetime statistics
    mirroredAtReload,  \* history variable: localStorage entry when the page was last reloaded
    answeredHere,      \* history variable: onAnswer ran for the question now shown
    last               \* history variable: the handler that ran last

vars == <<view, isReady, session, isLoading, selectedAnswer,
          bookmarks, masteryCards, history, srsStates, questionLibrary, studyPlan,
          lifetimeStats, localStorage, db, clock, remediations, saves, importTask,
          backup, imported, submitted, reloads, mirroredAtReload, fetch, dissects,
          form, migrated, answeredHere, last, alerted>>

-----------------------------------------------------------------------------
(* Bounds of the model *)

MaxQId == 1          \* question identifiers are 1..MaxQId
MaxCount == 2        \* most questions one generateQuestions response holds
MaxRemediation == 1  \* most questions one remediation response holds
MaxLen == 3          \* no response is appended beyond this session length
MaxClock == 2        \* the clock ticks this often: nothing that reads a later time starts
MaxInFlight == 1     \* most remediation requests in flight at once
MaxReloads == 1      \* most page reloads

(* Program constants *)
MsPerHour == 3600000

-----------------------------------------------------------------------------
(* Values *)

\* null | T is the sequence <<>> or <<x>>
None == <<>>
Some(x) == <<x>>
IsSome(o) == o # <<>>
The(o) == o[1]

Null == -1        \* JavaScript null, where a number is expected
Undefined == -2   \* JavaScript undefined (a hole of a sparse array)

Options == {0, 1}                 \* indices of the answer options of a question
QIds == 1..MaxQId
Question == [id : QIds, correctIndex : Options]

Max(a, b) == IF a >= b THEN a ELSE b

\* sequences over S of length lo..hi
SeqsBetween(S, lo, hi) == UNION {[1..n -> S] : n \in lo..hi}

\* Math.round(a / b) for a >= 0, b > 0
RoundDiv(a, b) == (2 * a + b) \div (2 * b)

RECURSIVE SumOver(_, _)
SumOver(s, field) == IF s = <<>> THEN 0 ELSE s[1][field] + SumOver(Tail(s), field)

RECURSIVE MinTimestamp(_)
MinTimestamp(s) ==
    IF Len(s) = 1 THEN s[1].timestamp
    ELSE LET m == MinTimestamp(Tail(s)) IN IF s[1].timestamp <= m THEN s[1].timestamp ELSE m

-----------------------------------------------------------------------------
(* QuizSession (src/unnamed/part_000:49-60) and its sparse answer array *)

\* userAnswers[i] for a 0-based i: undefined beyond the array's length
AnswerAt(answers, i) == IF i < Len(answers) THEN answers[i + 1] ELSE Undefined

\* answers[i] = v on a copy: JavaScript extends the array, leaving holes
SetAnswer(answers, i, v) ==
    [j \in 1..Max(Len(answers), i + 1) |->
        IF j = i + 1 THEN v ELSE IF j <= Len(answers) THEN answers[j] ELSE Undefined]

\* x ?? null
Nullish(x) == IF x = Undefined THEN Null ELSE x

\* JSON.stringify(session): a hole or undefined of an array is written as null
Stringify(s) ==
    [s EXCEPT !.userAnswers = [j \in 1..Len(s.userAnswers) |-> Nullish(s.userAnswers[j])]]

\* JSON.parse of a stringified session
Parse(text) == text

\* a mirror effect that writes the entry and never removes it
MirrorNeverRemoved(sess) == IF IsSome(sess) THEN Some(Stringify(The(sess))) ELSE localStorage

\* the effect of App.tsx:89-92, run after every render that changed session
MirrorOf(sess) == IF IsSome(sess) THEN Some(Stringify(The(sess))) ELSE None

\* a session that takes over the answers of the one it replaces
NewSessionResumed(questions, autoReinforce, now) ==
    [questions |-> questions, currentQuestionIndex |-> 0,
     userAnswers |-> IF IsSome(session) THEN The(session).userAnswers ELSE <<>>,
     startTime |-> now, autoReinforce |-> autoReinforce]

\* a session that opens at its second question
NewSessionAtSecond(questions, autoReinforce, now) ==
    [questions |-> questions,
     currentQuestionIndex |-> IF Len(questions) > 1 THEN 1 ELSE 0,
     userAnswers |-> <<>>, startTime |-> now, autoReinforce |-> autoReinforce]

NewSession(questions, autoReinforce, now) ==
    [questions |-> questions, currentQuestionIndex |-> 0, userAnswers |-> <<>>,
     startTime |-> now, autoReinforce |-> autoReinforce]

-----------------------------------------------------------------------------
(* DatabaseService (src/unnamed/part_001) *)

Slots == {"history", "bookmarks", "masteryCards", "srsStates", "questionLibrary",
          "studyPlan", "lifetimeStats"}

EmptyMap == <<>>     \* {} : the map with no key
EmptyDb == [k \in Slots |-> None]

\* dbService.set(key, value)
DbSet(d, key, value) == [d EXCEPT ![key] = Some(value)]

\* (await dbService.get(key)) || dflt
DbGetOr(d, key, dflt) == IF IsSome(d[key]) THEN The(d[key]) ELSE dflt

-----------------------------------------------------------------------------
(* IEEE-754 doubles, as far as Math.round((totalCorrect / totalQuestions) * 100)
   needs them (src/unnamed/part_001:96).  A significand has 53 bits; it is
   kept as five 13-bit limbs, least significant first, so that no
   intermediate value exceeds 32 bits. *)

LimbBase == 8192

RECURSIVE Pow2(_)
Pow2(n) == IF n = 0 THEN 1 ELSE 2 * Pow2(n - 1)

\* the least k with 2^k * c >= q, for 0 < c < q: c/q lies in [2^-k, 2^(1-k))
RECURSIVE Scale(_, _, _)
Scale(c, q, k) == IF Pow2(k) * c >= q THEN k ELSE Scale(c, q, k + 1)

\* x + 1
LimbsSucc(x) ==
    LET c1 == IF x[0] + 1 = LimbBase THEN 1 ELSE 0
        c2 == IF x[1] + c1 = LimbBase THEN 1 ELSE 0
        c3 == IF x[2] + c2 = LimbBase THEN 1 ELSE 0
        c4 == IF x[3] + c3 = LimbBase THEN 1 ELSE 0
    IN [j \in 0..4 |-> CASE j = 0 -> (x[0] + 1) % LimbBase
                         [] j = 1 -> (x[1] + c1) % LimbBase
                         [] j = 2 -> (x[2] + c2) % LimbBase
                         [] j = 3 -> (x[3] + c3) % LimbBase
                         [] OTHER -> x[4] + c4]

\* x * n for a small n
LimbsTimes(x, n) ==
    LET t0 == x[0] * n
        t1 == x[1] * n + t0 \div LimbBase
        t2 == x[2] * n + t1 \div LimbBase
        t3 == x[3] * n + t2 \div LimbBase
        t4 == x[4] * n + t3 \div LimbBase
    IN [j \in 0..4 |-> CASE j = 0 -> t0 % LimbBase
                         [] j = 1 -> t1 % LimbBase
                         [] j = 2 -> t2 % LimbBase
                         [] j = 3 -> t3 % LimbBase
                         [] OTHER -> t4]

\* x div 2^s, for 0 <= s < 13
LimbsShiftRight(x, s) ==
    [j \in 0..4 |->
        (x[j] \div Pow2(s))
        + (IF j < 4 THEN (x[j + 1] % Pow2(s)) * Pow2(13 - s) ELSE 0)]

\* round-to-nearest, ties-to-even, of x / 2^s to a whole number, for 1 <= s < 13
LimbsRound(x, s) ==
    LET kept == LimbsShiftRight(x, s)
        low  == x[0] % Pow2(s)
        half == Pow2(s - 1)
    IN IF low > half \/ (low = half /\ kept[0] % 2 = 1) THEN LimbsSucc(kept) ELSE kept

\* the double c / q for 0 < c < q: significand sig (2^52 <= sig <= 2^53)
\* and exponent exp, the value being sig / 2^exp.  The 52 bits after the
\* leading one come from long division, 13 bits at a time.
DoubleQuotient(c, q) ==
    LET k  == Scale(c, q, 1)
        r0 == Pow2(k) * c - q
        d3 == (r0 * LimbBase) \div q
        r3 == (r0 * LimbBase) % q
        d2 == (r3 * LimbBase) \div q
        r2 == (r3 * LimbBase) % q
        d1 == (r2 * LimbBase) \div q
        r1 == (r2 * LimbBase) % q
        d0 == (r1 * LimbBase) \div q
        r  == (r1 * LimbBase) % q
        kept == [j \in 0..4 |-> CASE j = 0 -> d0 [] j = 1 -> d1 [] j = 2 -> d2
                                  [] j = 3 -> d3 [] OTHER -> 1]
        up   == 2 * r > q \/ (2 * r = q /\ d0 % 2 = 1)
    IN [sig |-> IF up THEN LimbsSucc(kept) ELSE kept, exp |-> 52 + k]

\* the double x * 100: the exact product has 59 or 60 bits and is rounded
\* to 53
DoubleTimes100(x) ==
    LET p == LimbsTimes(x.sig, 100)
        s == IF p[4] >= Pow2(7) THEN 7 ELSE 6
    IN [sig |-> LimbsRound(p, s), exp |-> x.exp - s]

\* Math.round(x) for a double x = sig / 2^exp with 40 <= exp: the whole
\* part plus the bit of weight one half
MathRound(x) ==
    LET top == x.sig[4] * LimbBase + x.sig[3]
        e   == x.exp - 39
    IN (top \div Pow2(e)) + ((top \div Pow2(e - 1)) % 2)

\* Math.round((correct / total) * 100) for 0 <= correct <= total, total > 0
AccuracyPercent(correct, total) ==
    IF correct = 0 THEN 0
    ELSE IF correct = total THEN 100
    ELSE MathRound(DoubleTimes100(DoubleQuotient(correct, total)))

\* the LifetimeStats written when there is no history
EmptyStats(now) ==
    [totalQuestions |-> 0, totalCorrect |-> 0, totalHours |-> 0, avgAccuracy |-> 0,
     firstSessionDate |-> now]

\* the LifetimeStats updateAnalytics computes; totalHours is in tenths of an hour
ComputeStats(hist, now) ==
    IF Len(hist) = 0 THEN EmptyStats(now)
    ELSE [totalQuestions |-> SumOver(hist, "totalQuestions"),
          totalCorrect |-> SumOver(hist, "correctAnswers"),
          totalHours |-> RoundDiv(SumOver(hist, "timeTakenMs") * 10, MsPerHour),
          avgAccuracy |-> AccuracyPercent(SumOver(hist, "correctAnswers"),
                                          SumOver(hist, "totalQuestions")),
          firstSessionDate |-> MinTimestamp(hist)]

\* updateAnalytics(historyOverride): the store after it
UpdateAnalyticsDb(d, hist, now) == DbSet(d, "lifetimeStats", ComputeStats(hist, now))

\* getAllData(): the AppData it returns
GetAllData(d, now) ==
    LET hist == DbGetOr(d, "history", <<>>) IN
    [history |-> hist,
     bookmarks |-> DbGetOr(d, "bookmarks", <<>>),
     masteryCards |-> DbGetOr(d, "masteryCards", EmptyMap),
     srsStates |-> DbGetOr(d, "srsStates", EmptyMap),
     questionLibrary |-> DbGetOr(d, "questionLibrary", EmptyMap),
     studyPlan |-> DbGetOr(d, "studyPlan", None),
     lifetimeStats |-> IF IsSome(d["lifetimeStats"]) THEN The(d["lifetimeStats"])
                       ELSE ComputeStats(hist, now)]

\* a getAllData that computes the missing statistics and does not store them
GetAllDataDbUnwritten(d, now) == d

\* getAllData(): the store after it (the auto-migration writes lifetimeStats)
GetAllDataDb(d, now) ==
    IF IsSome(d["lifetimeStats"]) THEN d
    ELSE UpdateAnalyticsDb(d, DbGetOr(d, "history", <<>>), now)

-----------------------------------------------------------------------------
(* App.tsx helpers *)

\* addToLibrary: the first question stored under an identifier stays
RECURSIVE AddToLibrary(_, _)
AddToLibrary(lib, questions) ==
    IF questions = <<>> THEN lib
    ELSE LET q == questions[1] IN
         AddToLibrary(IF q.id \in DOMAIN lib THEN lib
                      ELSE [i \in DOMAIN lib \cup {q.id} |-> IF i = q.id THEN q ELSE lib[i]],
                      Tail(questions))

\* the sync effects of App.tsx:83-87 for the collections a handler has set
SyncWrite(d, ready, keys, values) ==
    IF ready THEN [k \in Slots |-> IF k \in keys THEN Some(values[k]) ELSE d[k]] ELSE d

\* number of positions whose recorded answer is the question's correct index
RECURSIVE CorrectCount(_, _, _)
CorrectCount(questions, answers, n) ==
    IF n = 0 THEN 0
    ELSE CorrectCount(questions, answers, n - 1)
         + (IF n <= Len(questions) /\ answers[n] = questions[n].correctIndex THEN 1 ELSE 0)

\* the HistoricalSession processSessionCompletion builds
HistoryEntry(finalSession, now) ==
    [timestamp |-> now,
     totalQuestions |-> Len(finalSession.questions),
     correctAnswers |-> CorrectCount(finalSession.questions, finalSession.userAnswers,
                                     Len(finalSession.userAnswers)),
     timeTakenMs |-> now - finalSession.startTime]

\* a remediation decision that forgets the first-time test
ShouldReinforceEveryTime(sess, selected, manualReinforce) ==
    manualReinforce
    \/ (selected # sess.questions[sess.currentQuestionIndex + 1].correctIndex
        /\ sess.autoReinforce)

\* handleNext: the remediation decision
ShouldReinforce(sess, selected, manualReinforce) ==
    LET idx == sess.currentQuestionIndex
        isCorrect == selected = sess.questions[idx + 1].correctIndex
    IN manualReinforce
       \/ (~isCorrect /\ AnswerAt(sess.userAnswers, idx) = Undefined /\ sess.autoReinforce)

-----------------------------------------------------------------------------
(* The generator client (src/unnamed/part_002:5-37) *)

\* fetchWithRetry's default arguments
MaxRetries == 5
InitialDelay == 3000

\* What fetchWithRetry reads of the error an attempt was rejected with: its
\* status, and whether its message contains one of the texts of the rate-limit
\* test ('429', 'quota') or of the transient-error test ('Rpc failed',
\* 'xhr error', 'code: 6', '500').
ErrorStatuses == {"400", "403", "429", "503"}
ApiErrors == [status : ErrorStatuses, rateText : BOOLEAN, rpcText : BOOLEAN]

IsRateLimit(error) == error.rateText \/ error.status \in {"429", "RESOURCE_EXHAUSTED"}
IsRpcError(error) == error.rpcText \/ error.status \in {"500", "503", "UNKNOWN"}

\* no call of fetchWithRetry is under way
NoFetch ==
    [pc |-> "idle", retries |-> 0, attempts |-> 0, sleeps |-> 0, delay |-> 0,
     caught |-> None, thrown |-> None]

\* The QuizSetup form as it is mounted (QuizSetup.tsx:29-34); two of the
\* specialties and two of the exam types stand for all of them.
Specialties == {"Internal Medicine", "Surgery"}
ExamTypes == {"Step 2 CK", "Step 3"}
TopicTexts == {"", " ", "Glaucoma"}

DefaultForm ==
    [selectedSpecialties |-> <<"Internal Medicine">>, selectedExamTypes |-> <<"Step 2 CK">>,
     topics |-> "", autoReinforce |-> TRUE]

sessionVars == <<session, selectedAnswer, answeredHere, localStorage>>
cardVars == <<bookmarks, masteryCards, srsStates, studyPlan>>
storeVars == <<importTask, backup, imported, submitted>>
reloadVars == <<reloads, mirroredAtReload, fetch, dissects, migrated, form>>

-----------------------------------------------------------------------------
(* Start-up (App.tsx:54-92) *)

\* A fresh install right after the first render and its mount effects: no state is
\* loaded yet, and the session mirror effect has run with session = null.
Init ==
    /\ view = "setup"
    /\ isReady = FALSE
    /\ session = None
    /\ isLoading = None
    /\ selectedAnswer = Null
    /\ bookmarks = <<>>
    /\ masteryCards = EmptyMap
    /\ history = <<>>
    /\ srsStates = EmptyMap
    /\ questionLibrary = EmptyMap
    /\ studyPlan = None
    /\ lifetimeStats = None
    /\ localStorage = None
    /\ db = EmptyDb
    /\ clock = 0
    /\ remediations = EmptyBag
    /\ saves = {}
    /\ importTask = None
    /\ backup = None
    /\ imported = None
    /\ submitted = None
    /\ reloads = 0
    /\ mirroredAtReload = None
    /\ fetch = NoFetch
    /\ dissects = {}
    /\ migrated = FALSE
    /\ form = DefaultForm
    /\ answeredHere = FALSE
    /\ last = "mount"
    /\ alerted = ""

\* a start-up whose sync effects are not held back until isReady: the effects of
\* the mount write the empty collections before getAllData reads the store
InitDataSyncsAtMount ==
    /\ ~isReady
    /\ LET mounted == SyncWrite(db, TRUE,
                                {"bookmarks", "masteryCards", "srsStates", "questionLibrary",
                                 "studyPlan"},
                                [bookmarks |-> bookmarks, masteryCards |-> masteryCards,
                                 srsStates |-> srsStates, questionLibrary |-> questionLibrary,
                                 studyPlan |-> studyPlan])
           data == GetAllData(mounted, clock)
           restored == IF IsSome(localStorage) THEN Some(Parse(The(localStorage))) ELSE session
       IN /\ history' = data.history
          /\ bookmarks' = data.bookmarks
          /\ masteryCards' = data.masteryCards
          /\ srsStates' = data.srsStates
          /\ questionLibrary' = data.questionLibrary
          /\ studyPlan' = data.studyPlan
          /\ lifetimeStats' = Some(data.lifetimeStats)
          /\ session' = restored
          /\ localStorage' = MirrorOf(restored)
          /\ db' = GetAllDataDb(mounted, clock)
    /\ isReady' = TRUE
    /\ migrated' = (~IsSome(db["lifetimeStats"]) /\ DbGetOr(db, "history", <<>>) # <<>>)
    /\ last' = "initData"
    /\ alerted' = ""
    /\ UNCHANGED <<view, isLoading, selectedAnswer, remediations, saves, clock,
                   answeredHere>>
    /\ UNCHANGED <<storeVars, reloads, mirroredAtReload, fetch, dissects, form>>

\* initData after its awaits: load every collection, restore the session from
\* localStorage, set isReady; the sync effects then write the five collections.
InitData ==
    /\ ~isReady
    /\ LET data == GetAllData(db, clock)
           restored == IF IsSome(localStorage) THEN Some(Parse(The(localStorage))) ELSE session
       IN /\ history' = data.history
          /\ bookmarks' = data.bookmarks
          /\ masteryCards' = data.masteryCards
          /\ srsStates' = data.srsStates
          /\ questionLibrary' = data.questionLibrary
          /\ studyPlan' = data.studyPlan
          /\ lifetimeStats' = Some(data.lifetimeStats)
          /\ session' = restored
          /\ localStorage' = MirrorOf(restored)
          /\ db' = SyncWrite(GetAllDataDb(db, clock), TRUE,
                             {"bookmarks", "masteryCards", "srsStates", "questionLibrary",
                              "studyPlan"},
                             [bookmarks |-> data.bookmarks,
                              masteryCards |-> data.masteryCards,
                              srsStates |-> data.srsStates,
                              questionLibrary |-> data.questionLibrary,
                              studyPlan |-> data.studyPlan])
    /\ isReady' = TRUE
    /\ migrated' = (~IsSome(db["lifetimeStats"]) /\ DbGetOr(db, "history", <<>>) # <<>>)
    /\ last' = "initData"
    /\ alerted' = ""
    /\ UNCHANGED <<view, isLoading, selectedAnswer, remediations, saves, clock,
                   answeredHere>>
    /\ UNCHANGED <<storeVars, reloads, mirroredAtReload, fetch, dissects, form>>

\* window.location.reload() or a hard reload: the page's memory and its pending
\* continuations are gone, the stores stay; the component mounts again and the mirror
\* effect of App.tsx:89-92 runs with the initial session = null.
Unload ==
    /\ mirroredAtReload' = localStorage
    /\ fetch' = NoFetch
    /\ dissects' = {}
    /\ migrated' = FALSE
    /\ form' = DefaultForm
    /\ view' = "setup"
    /\ isReady' = FALSE
    /\ session' = None
    /\ isLoading' = None
    /\ selectedAnswer' = Null
    /\ bookmarks' = <<>>
    /\ masteryCards' = EmptyMap
    /\ history' = <<>>
    /\ srsStates' = EmptyMap
    /\ questionLibrary' = EmptyMap
    /\ studyPlan' = None
    /\ lifetimeStats' = None
    /\ localStorage' = MirrorOf(None)
    /\ remediations' = EmptyBag
    /\ saves' = {}
    /\ importTask' = None
    /\ answeredHere' = FALSE
    /\ UNCHANGED <<db, clock, backup>>

\* a hard reload by the user
Reload ==
    /\ reloads < MaxReloads
    /\ reloads' = reloads + 1
    /\ Unload
    /\ last' = "mount"
    /\ alerted' = ""
    /\ UNCHANGED <<imported, submitted>>

-----------------------------------------------------------------------------
(* Navigation (App.tsx:379, 399, 423) *)

\* the header logo, or onRestart / onClose of a view
GoSetup ==
    /\ isReady /\ view # "setup"
    /\ view' = "setup"
    /\ last' = "setView"
    /\ alerted' = ""
    /\ UNCHANGED <<isReady, isLoading, history, questionLibrary, lifetimeStats, db, clock,
                   remediations, saves>>
    /\ UNCHANGED <<sessionVars, cardVars, storeVars, reloadVars>>

\* onResume, offered by QuizSetup while activeSessionProgress is defined
Resume ==
    /\ isReady /\ view = "setup" /\ IsSome(session)
    /\ view' = "quiz"
    /\ last' = "setView"
    /\ alerted' = ""
    /\ UNCHANGED <<isReady, isLoading, history, questionLibrary, lifetimeStats, db, clock,
                   remediations, saves>>
    /\ UNCHANGED <<sessionVars, cardVars, storeVars, reloadVars>>

\* a discard that files the abandoned session in the history
DiscardRecords ==
    /\ isReady /\ view = "setup" /\ IsSome(session)
    /\ session' = None
    /\ localStorage' = MirrorOf(None)
    /\ history' = <<HistoryEntry(The(session), clock)>> \o history
    /\ answeredHere' = FALSE
    /\ last' = "discard"
    /\ alerted' = ""
    /\ UNCHANGED <<view, isReady, isLoading, selectedAnswer,
                   questionLibrary, lifetimeStats, db, clock, remediations, saves>>
    /\ UNCHANGED <<cardVars, storeVars, reloadVars>>

\* onDiscardSession = () => setSession(null)
Discard ==
    /\ isReady /\ view = "setup" /\ IsSome(session)
    /\ session' = None
    /\ localStorage' = MirrorOf(None)
    /\ answeredHere' = FALSE
    /\ last' = "discard"
    /\ alerted' = ""
    /\ UNCHANGED <<view, isReady, isLoading, selectedAnswer, history,
                   questionLibrary, lifetimeStats, db, clock, remediations, saves>>
    /\ UNCHANGED <<cardVars, storeVars, reloadVars>>

-----------------------------------------------------------------------------
(* Session controller (App.tsx:186-310) *)

\* the ways a generation request fails, as handleError tells them apart
ErrorKinds == {"403", "429", "other"}

\* handleError's alert.  Its last branch tests the isLoading of the render that
\* created the handler, and startQuiz can only be called from a render whose
\* isLoading is false (the Generate button is disabled otherwise), so an error that
\* is neither a 403 nor a 429 is logged and not shown.
AlertOf(kind) ==
    IF kind = "403"
    THEN "Permission Denied: Please select a valid API Key with Gemini API access enabled."
    ELSE IF kind = "429" THEN "API Quota Reached. Please activate your key or wait 60s."
    ELSE ""

\* startQuiz up to its await of generateQuestions; the Generate button is disabled
\* while isLoading (QuizSetup.tsx:240)
StartQuiz(autoReinforce) ==
    /\ isReady /\ view = "setup" /\ isLoading = None
    /\ clock < MaxClock
    /\ isLoading' = Some([autoReinforce |-> autoReinforce])
    /\ last' = "startQuiz"
    /\ alerted' = ""
    /\ UNCHANGED <<view, isReady, history, questionLibrary, lifetimeStats, db, clock,
                   remediations, saves>>
    /\ UNCHANGED <<sessionVars, cardVars, storeVars, reloadVars>>

\* startQuiz after generateQuestions resolved with `questions` (App.tsx:217-233)
StartQuizDone(questions) ==
    /\ IsSome(isLoading)
    /\ isLoading' = None
    /\ last' = IF Len(questions) = 0 THEN "startQuizEmpty" ELSE "startQuizDone"
    /\ alerted' = AlertOf("other")
    /\ IF Len(questions) = 0
       THEN \* throw new Error("Empty response"), caught by handleError
            UNCHANGED <<view, questionLibrary, db, clock, sessionVars>>
       ELSE LET fresh == NewSession(questions, The(isLoading).autoReinforce, clock + 1)
                lib == AddToLibrary(questionLibrary, questions)
            IN /\ questionLibrary' = lib
               /\ db' = SyncWrite(db, isReady, {"questionLibrary"}, [questionLibrary |-> lib])
               /\ session' = Some(fresh)
               /\ localStorage' = MirrorOf(Some(fresh))
               /\ view' = "quiz"
               /\ clock' = clock + 1
               /\ answeredHere' = FALSE
               /\ UNCHANGED selectedAnswer
    /\ UNCHANGED <<isReady, history, lifetimeStats, remediations, saves>>
    /\ UNCHANGED <<cardVars, storeVars, reloadVars>>

\* a failure path that gives up the active session as well
StartQuizFailClearsSession(kind) ==
    /\ IsSome(isLoading)
    /\ isLoading' = None
    /\ session' = None
    /\ localStorage' = MirrorOf(None)
    /\ last' = "startQuizFail"
    /\ alerted' = AlertOf(kind)
    /\ UNCHANGED <<view, isReady, history, questionLibrary, lifetimeStats, db, clock,
                   remediations, saves, selectedAnswer, answeredHere>>
    /\ UNCHANGED <<cardVars, storeVars, reloadVars>>

\* generateQuestions rejected: handleError, then finally
StartQuizFail(kind) ==
    /\ IsSome(isLoading)
    /\ isLoading' = None
    /\ last' = "startQuizFail"
    /\ alerted' = AlertOf(kind)
    /\ UNCHANGED <<view, isReady, history, questionLibrary, lifetimeStats, db, clock,
                   remediations, saves>>
    /\ UNCHANGED <<sessionVars, cardVars, storeVars, reloadVars>>

\* the QuestionCard is rendered (App.tsx:402)
CardShown == isReady /\ view = "quiz" /\ IsSome(session)

\* an option click that is taken whether or not the question is answered
AnswerOverwrites(idx) ==
    /\ CardShown
    /\ last' = "answer"
    /\ alerted' = ""
    /\ selectedAnswer' = idx
    /\ answeredHere' = TRUE
    /\ UNCHANGED <<view, isReady, session, localStorage, isLoading,
                   history, questionLibrary, lifetimeStats, db, clock, remediations, saves>>
    /\ UNCHANGED <<cardVars, storeVars, reloadVars>>

\* QuestionCard.handleAnswerClick -> onAnswer = setSelectedAnswer
Answer(idx) ==
    /\ CardShown
    /\ last' = "answer"
    /\ alerted' = ""
    /\ IF selectedAnswer # Null
       THEN UNCHANGED <<selectedAnswer, answeredHere>>
       ELSE selectedAnswer' = idx /\ answeredHere' = TRUE
    /\ UNCHANGED <<view, isReady, session, localStorage, isLoading,
                   history, questionLibrary, lifetimeStats, db, clock, remediations, saves>>
    /\ UNCHANGED <<cardVars, storeVars, reloadVars>>

\* a retreat that keeps the selection of the position it leaves
HandlePrevKeepsSelection ==
    /\ CardShown
    /\ last' = "handlePrev"
    /\ alerted' = ""
    /\ LET sess == The(session) IN
       IF sess.currentQuestionIndex > 0
       THEN LET moved == [sess EXCEPT !.currentQuestionIndex = sess.currentQuestionIndex - 1]
            IN /\ session' = Some(moved)
               /\ localStorage' = MirrorOf(Some(moved))
               /\ answeredHere' = FALSE
               /\ UNCHANGED selectedAnswer
       ELSE UNCHANGED <<session, localStorage, selectedAnswer, answeredHere>>
    /\ UNCHANGED <<view, isReady, isLoading, history, questionLibrary,
                   lifetimeStats, db, clock, remediations, saves>>
    /\ UNCHANGED <<cardVars, storeVars, reloadVars>>

\* a retreat that is also taken at the first question
HandlePrevBelowFirst ==
    /\ CardShown
    /\ last' = "handlePrev"
    /\ alerted' = ""
    /\ LET sess == The(session)
           moved == [sess EXCEPT !.currentQuestionIndex = @ - 1]
       IN /\ session' = Some(moved)
          /\ localStorage' = MirrorOf(Some(moved))
          /\ selectedAnswer' = Null
          /\ answeredHere' = FALSE
    /\ UNCHANGED <<view, isReady, isLoading, history, questionLibrary,
                   lifetimeStats, db, clock, remediations, saves>>
    /\ UNCHANGED <<cardVars, storeVars, reloadVars>>

\* handlePrev
HandlePrev ==
    /\ CardShown
    /\ last' = "handlePrev"
    /\ alerted' = ""
    /\ LET sess == The(session) IN
       IF sess.currentQuestionIndex > 0
       THEN LET prevIdx == sess.currentQuestionIndex - 1
                moved == [sess EXCEPT !.currentQuestionIndex = prevIdx]
            IN /\ session' = Some(moved)
               /\ localStorage' = MirrorOf(Some(moved))
               /\ selectedAnswer' = Nullish(AnswerAt(sess.userAnswers, prevIdx))
               /\ answeredHere' = FALSE
       ELSE UNCHANGED <<session, localStorage, selectedAnswer, answeredHere>>
    /\ UNCHANGED <<view, isReady, isLoading, history, questionLibrary,
                   lifetimeStats, db, clock, remediations, saves>>
    /\ UNCHANGED <<cardVars, storeVars, reloadVars>>

\* the request handleNext issues when shouldReinforce (App.tsx:269-271): the pending
\* promise, whose callbacks close over the session that issued it
RemediationTask(sess) == [origin |-> sess.startTime]

\* the call processSessionCompletion leaves in flight: saveSession has issued its
\* get of 'history' (part_001:65) and waits for it
SaveTask(entry, d) == [entry |-> entry, loaded |-> DbGetOr(d, "history", <<>>), pc |-> "put"]

\* handleNext(userFocus, manualReinforce)
HandleNext(manualReinforce) ==
    /\ CardShown
    /\ last' = IF manualReinforce THEN "handleNextForce" ELSE "handleNext"
    /\ alerted' = ""
    /\ IF selectedAnswer = Null
       THEN UNCHANGED <<view, history, clock, remediations, saves, sessionVars>>
       ELSE LET sess == The(session)
                currentIdx == sess.currentQuestionIndex
                updatedAnswers == SetAnswer(sess.userAnswers, currentIdx, selectedAnswer)
                shouldReinforce == ShouldReinforce(sess, selectedAnswer, manualReinforce)
                nextIndex == currentIdx + 1
            IN /\ shouldReinforce => BagCardinality(remediations) < MaxInFlight
               /\ IF nextIndex < Len(sess.questions)
                  THEN LET moved == [sess EXCEPT !.currentQuestionIndex = nextIndex,
                                                 !.userAnswers = updatedAnswers]
                       IN /\ session' = Some(moved)
                          /\ localStorage' = MirrorOf(Some(moved))
                          /\ selectedAnswer' = Nullish(AnswerAt(sess.userAnswers, nextIndex))
                          /\ answeredHere' = FALSE
                          /\ UNCHANGED <<view, history, clock, saves>>
                  ELSE LET finalSession == [sess EXCEPT !.userAnswers = updatedAnswers]
                           entry == HistoryEntry(finalSession, clock)
                       IN /\ history' = <<entry>> \o history
                          /\ saves' = saves \cup {SaveTask(entry, db)}
                          /\ session' = None
                          /\ localStorage' = MirrorOf(None)
                          /\ view' = "results"
                          /\ UNCHANGED clock
                          /\ answeredHere' = FALSE
                          /\ UNCHANGED selectedAnswer
               /\ remediations' = IF shouldReinforce
                                  THEN remediations (+) SetToBag({RemediationTask(sess)})
                                  ELSE remediations
    /\ UNCHANGED <<isReady, isLoading, questionLibrary, lifetimeStats, db>>
    /\ UNCHANGED <<cardVars, storeVars, reloadVars>>

\* a callback without the `if (!prev) return null` guard: it builds a session
AppendRemediationUnguarded(prev, task, remediation) ==
    IF ~IsSome(prev) THEN Some(NewSession(remediation, FALSE, task.origin))
    ELSE Some([The(prev) EXCEPT !.questions = The(prev).questions \o remediation])

\* a callback that restarts the extended session at its first question
AppendRemediationRewinds(prev, task, remediation) ==
    IF ~IsSome(prev) THEN None
    ELSE Some([The(prev) EXCEPT !.questions = The(prev).questions \o remediation,
                                !.currentQuestionIndex = 0])

\* setSession(prev => ...) of the remediation callback (App.tsx:275-280)
AppendRemediation(prev, task, remediation) ==
    IF ~IsSome(prev) THEN None
    ELSE Some([The(prev) EXCEPT !.questions = The(prev).questions \o remediation])

\* generateSimilarQuestions resolved with `remediation` (App.tsx:272-281)
RemediationArrive(task, remediation) ==
    /\ BagIn(task, remediations)
    /\ IsSome(session) => Len(The(session).questions) + Len(remediation) <= MaxLen
    /\ remediations' = remediations (-) SetToBag({task})
    /\ last' = IF Len(remediation) = 0 THEN "remediationEmpty" ELSE "remediation"
    /\ alerted' = ""
    /\ IF Len(remediation) = 0
       THEN UNCHANGED <<questionLibrary, db, session, localStorage>>
       ELSE LET lib == AddToLibrary(questionLibrary, remediation)
                next == AppendRemediation(session, task, remediation)
            IN /\ questionLibrary' = lib
               /\ db' = SyncWrite(db, isReady, {"questionLibrary"}, [questionLibrary |-> lib])
               /\ session' = next
               /\ localStorage' = MirrorOf(next)
    /\ UNCHANGED <<view, isReady, selectedAnswer, answeredHere, isLoading,
                   history, lifetimeStats, clock, saves>>
    /\ UNCHANGED <<cardVars, storeVars, reloadVars>>

\* a catch handler that shows the failure and leaves the request pending
RemediationFailShown(task) ==
    /\ BagIn(task, remediations)
    /\ last' = "remediationFail"
    /\ alerted' = "API Error. Please try again."
    /\ UNCHANGED <<view, isReady, isLoading, history, questionLibrary, lifetimeStats, db,
                   clock, remediations, saves>>
    /\ UNCHANGED <<sessionVars, cardVars, storeVars, reloadVars>>

\* generateSimilarQuestions rejected: console.error (App.tsx:281)
RemediationFail(task) ==
    /\ BagIn(task, remediations)
    /\ remediations' = remediations (-) SetToBag({task})
    /\ last' = "remediationFail"
    /\ alerted' = ""
    /\ UNCHANGED <<view, isReady, isLoading, history, questionLibrary, lifetimeStats, db,
                   clock, saves>>
    /\ UNCHANGED <<sessionVars, cardVars, storeVars, reloadVars>>

\* the calls of saveSession that were made before `task` was: IndexedDB answers
\* requests in the order they were issued, and a call's next request is issued as
\* soon as the one before it is answered, so an earlier call stays ahead
EarlierSaves(task) == {u \in saves : u.entry.timestamp < task.entry.timestamp}

\* saveSession after its get resolved: put [session, ...history] (part_001:66-67)
SavePutHistory(task) ==
    /\ task \in saves /\ task.pc = "put"
    /\ \A u \in EarlierSaves(task) : u.pc # "put"
    /\ db' = DbSet(db, "history", <<task.entry>> \o task.loaded)
    /\ saves' = (saves \ {task}) \cup {[task EXCEPT !.pc = "stats"]}
    /\ last' = "saveSession"
    /\ alerted' = ""
    /\ UNCHANGED <<view, isReady, isLoading, history, questionLibrary, lifetimeStats, clock,
                   remediations>>
    /\ UNCHANGED <<sessionVars, cardVars, storeVars, reloadVars>>

\* saveSession's updateAnalytics(updatedHistory), then setLifetimeStats (App.tsx:309)
SaveFinish(task) ==
    /\ task \in saves /\ task.pc = "stats"
    /\ EarlierSaves(task) = {}
    /\ LET updatedHistory == <<task.entry>> \o task.loaded IN
       /\ db' = UpdateAnalyticsDb(db, updatedHistory, clock)
       /\ lifetimeStats' = Some(ComputeStats(updatedHistory, clock))
    /\ saves' = saves \ {task}
    /\ last' = "saveSessionDone"
    /\ alerted' = ""
    /\ UNCHANGED <<view, isReady, isLoading, history, questionLibrary, clock, remediations>>
    /\ UNCHANGED <<sessionVars, cardVars, storeVars, reloadVars>>

-----------------------------------------------------------------------------
(* The session controller under every interleaving of its callbacks *)

Next ==
    \/ InitData
    \/ GoSetup
    \/ Resume
    \/ Discard
    \/ \E a \in BOOLEAN : StartQuiz(a)
    \/ \E qs \in SeqsBetween(Question, 0, MaxCount) : StartQuizDone(qs)
    \/ \E kind \in ErrorKinds : StartQuizFail(kind)
    \/ \E i \in Options : Answer(i)
    \/ HandlePrev
    \/ \E m \in BOOLEAN : HandleNext(m)
    \/ \E t \in BagToSet(remediations), r \in SeqsBetween(Question, 0, MaxRemediation) :
           RemediationArrive(t, r)
    \/ \E t \in BagToSet(remediations) : RemediationFail(t)
    \/ \E t \in saves : SavePutHistory(t)
    \/ \E t \in saves : SaveFinish(t)

Spec == Init /\ [][Next]_vars

-----------------------------------------------------------------------------
(* Vocabulary of the session claims *)

\* the step just taken ran handleNext
AdvanceStep == last' \in {"handleNext", "handleNextForce"}

\* the step just taken delivered a non-empty remediation response
ArrivalStep == last' = "remediation"

\* an answer is recorded at the position shown: it was recorded on an earlier advance,
\* or the answer operation ran for this question
AnswerRecordedHere ==
    IsSome(session)
    /\ (answeredHere
        \/ AnswerAt(The(session).userAnswers, The(session).currentQuestionIndex) # Undefined)

\* the session state the claims speak of is left as it was
SessionUntouched ==
    /\ session' = session
    /\ localStorage' = localStorage
    /\ selectedAnswer' = selectedAnswer
    /\ history' = history
    /\ view' = view

\* C1: a remediation response is applied only to the session whose advance issued the
\* request; delivered while another session is active, it leaves that session as it is.
C1_ResponseOnlyToIssuingSession ==
    [][\A t \in BagToSet(remediations) :
          (/\ ArrivalStep
           /\ remediations' = remediations (-) SetToBag({t})
           /\ IsSome(session)
           /\ The(session).startTime # t.origin)
          => session' = session]_vars

\* C2: a response delivered while no session is active resurrects none and changes no
\* session state.
C2_LateResponseLeavesSessionAbsent ==
    [][(ArrivalStep /\ session = None) => (session' = None /\ SessionUntouched)]_vars

\* C2's case: a non-empty response was delivered after the session was discarded
C2_Witness ==
    /\ last = "remediation"
    /\ session = None
    /\ history = <<>>
    /\ isReady

\* C3: advance with no answer recorded at the current position changes nothing.
C3_AdvanceWithoutAnswerIsNoOp ==
    [][(AdvanceStep /\ CardShown /\ ~AnswerRecordedHere)
          => (SessionUntouched /\ remediations' = remediations /\ saves' = saves)]_vars


\* the step just taken ran handleNext at the last position with an answer selected
FinalAdvanceStep ==
    /\ AdvanceStep /\ CardShown /\ selectedAnswer # Null
    /\ The(session).currentQuestionIndex + 1 = Len(The(session).questions)

\* positions (1-based) of sess whose recorded answer is the question's correct index,
\* the answer at the current position being the one selected
CorrectPositions(sess, selected) ==
    {p \in 1..Len(sess.questions) :
        (IF p = sess.currentQuestionIndex + 1 THEN selected
         ELSE AnswerAt(sess.userAnswers, p - 1)) = sess.questions[p].correctIndex}

\* C4: advance at the last position completes the session: one HistoricalSession with
\* the session's question count and correct count is prepended, the active session is
\* cleared, and once the completion has settled the lifetime stats are the
\* recomputation over the history.
C4_FinalAdvanceCompletesSession ==
    /\ [][FinalAdvanceStep =>
            /\ session' = None
            /\ Len(history') = Len(history) + 1
            /\ Tail(history') = history
            /\ history'[1].totalQuestions = Len(The(session).questions)
            /\ history'[1].correctAnswers =
                   Cardinality(CorrectPositions(The(session), selectedAnswer))]_vars
    /\ []((isReady /\ saves = {} /\ history # <<>>)
            => lifetimeStats = Some(ComputeStats(history, clock)))


\* the step just taken ran handleNext with an answer selected
EffectiveAdvanceStep == AdvanceStep /\ CardShown /\ selectedAnswer # Null

\* C9: an advance issues a remediation request exactly when forceRemediate is set, or
\* the answer is incorrect, nothing was recorded at the position before and the
\* session's auto-remediation flag is set; the advance records the answer and a
\* recorded answer stays, so automatic remediation fires at most once per position.
C9_RemediationIssuedIff ==
    /\ [][EffectiveAdvanceStep =>
            LET sess == The(session)
                idx == sess.currentQuestionIndex
                incorrect == selectedAnswer # sess.questions[idx + 1].correctIndex
                firstTime == AnswerAt(sess.userAnswers, idx) = Undefined
                issued == remediations' # remediations
            IN /\ issued <=> (last' = "handleNextForce"
                              \/ (incorrect /\ firstTime /\ sess.autoReinforce))
               /\ issued => BagCardinality(remediations') = BagCardinality(remediations) + 1
               /\ IsSome(session') => AnswerAt(The(session').userAnswers, idx) = selectedAnswer]_vars
    /\ [][(IsSome(session) /\ IsSome(session')
           /\ The(session').startTime = The(session).startTime)
            => \A p \in 0..(Len(The(session).userAnswers) - 1) :
                  AnswerAt(The(session).userAnswers, p) # Undefined
                  => AnswerAt(The(session').userAnswers, p) # Undefined]_vars

\* C9's case: a plain advance over a question answered wrongly, with auto-remediation
\* on, issued no request, because the position had been answered on an earlier pass
C9_Witness ==
    /\ last = "handleNext"
    /\ IsSome(session)
    /\ remediations = EmptyBag
    /\ The(session).autoReinforce
    /\ The(session).currentQuestionIndex >= 1
    /\ LET p == The(session).currentQuestionIndex
       IN /\ AnswerAt(The(session).userAnswers, p - 1) \in Options
          /\ AnswerAt(The(session).userAnswers, p - 1) # The(session).questions[p].correctIndex
          /\ AnswerAt(The(session).userAnswers, p) # Undefined

-----------------------------------------------------------------------------
(* The session controller with page reloads *)

\* One session per page load: the student starts a quiz, works through it and may
\* reload the page at any moment.
NextReload ==
    \/ Reload
    \/ InitData
    \/ \E a \in BOOLEAN : StartQuiz(a)
    \/ \E qs \in SeqsBetween(Question, 0, MaxCount) : StartQuizDone(qs)
    \/ \E i \in Options : Answer(i)
    \/ HandlePrev
    \/ \E m \in BOOLEAN : HandleNext(m)
    \/ \E t \in BagToSet(remediations), r \in SeqsBetween(Question, 0, MaxRemediation) :
           RemediationArrive(t, r)
    \/ \E t \in saves : SavePutHistory(t)
    \/ \E t \in saves : SaveFinish(t)

SpecReload == Init /\ [][NextReload]_vars

\* C5: a session that was in progress, and mirrored to localStorage, when the page
\* was reloaded is the active session once start-up has finished.
C5_ReloadRestoresSession ==
    (last = "initData" /\ IsSome(mirroredAtReload))
        => session = Some(Parse(The(mirroredAtReload)))

-----------------------------------------------------------------------------
(* Backup and restore (part_001:104-135, part_003:158-199) *)

\* backupAllData(): the payload, written as the JSON value its text denotes
BackupAllData(d, now) == GetAllData(d, now)

\* a backup file with nothing in it that fullImport accepts
MinimalPayload == [history |-> <<>>, bookmarks |-> <<>>, questionLibrary |-> EmptyMap]

\* `data` without its top-level field `field`
Without(data, field) == [f \in DOMAIN data \ {field} |-> data[f]]

RequiredFields == {"history", "bookmarks", "questionLibrary"}

\* the files the student may pick: the last export, the minimal backup, and the
\* minimal backup with one required field removed.  A field that is present with
\* the wrong type is refused like a missing one and is not enumerated.
Files(bk) ==
    (IF IsSome(bk) THEN {The(bk)} ELSE {})
        \cup {MinimalPayload}
        \cup {Without(MinimalPayload, f) : f \in RequiredFields}

\* the checks of fullImport before its first write
Valid(data) == RequiredFields \subseteq DOMAIN data

\* the order of fullImport's six set calls
ImportOrder ==
    <<"history", "bookmarks", "masteryCards", "srsStates", "questionLibrary", "studyPlan">>

\* the value fullImport writes under `key`: data[key], or data[key] || default
ImportValue(data, key) ==
    IF key \in {"masteryCards", "srsStates"}
    THEN (IF key \in DOMAIN data THEN data[key] ELSE EmptyMap)
    ELSE IF key = "studyPlan"
    THEN (IF key \in DOMAIN data THEN data[key] ELSE None)
    ELSE data[key]

\* the header's analytics button
GoAnalytics ==
    /\ isReady /\ view # "analytics"
    /\ view' = "analytics"
    /\ last' = "setView"
    /\ alerted' = ""
    /\ UNCHANGED <<isReady, isLoading, history, questionLibrary, lifetimeStats, db, clock,
                   remediations, saves>>
    /\ UNCHANGED <<sessionVars, cardVars, storeVars, reloadVars>>

\* the Data Vault is offered by AnalyticsView once there is a session to chart
DataVaultOpen == isReady /\ view = "analytics" /\ history # <<>>

\* handleExport: backupAllData
HandleExport ==
    /\ DataVaultOpen
    /\ backup' = Some(BackupAllData(db, clock))
    /\ db' = GetAllDataDb(db, clock)
    /\ last' = "export"
    /\ alerted' = ""
    /\ UNCHANGED <<view, isReady, isLoading, history, questionLibrary, lifetimeStats, clock,
                   remediations, saves, importTask, imported, submitted>>
    /\ UNCHANGED <<sessionVars, cardVars, reloadVars>>

\* a fullImport that writes history before it looks at the other fields
HandleImportWritesFirst(data) ==
    /\ DataVaultOpen
    /\ importTask = None
    /\ submitted' = Some(data)
    /\ IF Valid(data)
       THEN /\ clock < MaxClock
            /\ clock' = clock + 1
            /\ db' = DbSet(db, "history", data["history"])
            /\ importTask' = Some([data |-> data, pc |-> 1])
            /\ last' = "importBegin"
            /\ alerted' = ""
       ELSE /\ db' = IF "history" \in DOMAIN data THEN DbSet(db, "history", data["history"])
                     ELSE db
            /\ last' = "importRejected"
            /\ alerted' = "Import Failed"
            /\ UNCHANGED <<clock, importTask>>
    /\ UNCHANGED <<view, isReady, isLoading, history, questionLibrary, lifetimeStats,
                   remediations, saves, backup, imported>>
    /\ UNCHANGED <<sessionVars, cardVars, reloadVars>>

\* handleImport after the file was read: fullImport parses and validates, then
\* issues its first set; a refused payload is answered with an alert
HandleImport(data) ==
    /\ DataVaultOpen
    /\ importTask = None
    /\ submitted' = Some(data)
    /\ IF Valid(data)
       THEN /\ clock < MaxClock
            /\ clock' = clock + 1
            /\ db' = DbSet(db, "history", data["history"])
            /\ importTask' = Some([data |-> data, pc |-> 1])
            /\ last' = "importBegin"
            /\ alerted' = ""
       ELSE /\ last' = "importRejected"
            /\ alerted' = "Import Failed"
            /\ UNCHANGED <<db, clock, importTask>>
    /\ UNCHANGED <<view, isReady, isLoading, history, questionLibrary, lifetimeStats,
                   remediations, saves, backup, imported>>
    /\ UNCHANGED <<sessionVars, cardVars, reloadVars>>

\* fullImport after one of its awaits: the next set, and after the sixth
\* updateAnalytics(data.history)
FullImportStep ==
    /\ IsSome(importTask) /\ The(importTask).pc <= Len(ImportOrder)
    /\ LET task == The(importTask)
           key == ImportOrder[task.pc + 1]
       IN /\ db' = IF task.pc < Len(ImportOrder)
                   THEN DbSet(db, key, ImportValue(task.data, key))
                   ELSE UpdateAnalyticsDb(db, task.data["history"], clock)
          /\ importTask' = Some([task EXCEPT !.pc = task.pc + 1])
    /\ last' = "importWrite"
    /\ alerted' = ""
    /\ UNCHANGED <<view, isReady, isLoading, history, questionLibrary, lifetimeStats, clock,
                   remediations, saves, backup, imported, submitted>>
    /\ UNCHANGED <<sessionVars, cardVars, reloadVars>>

\* fullImport returned true: alert, window.location.reload()
HandleImportDone ==
    /\ IsSome(importTask) /\ The(importTask).pc = Len(ImportOrder) + 1
    /\ imported' = Some(The(importTask).data)
    /\ Unload
    /\ last' = "importDone"
    /\ alerted' = "Import successful! Reloading..."
    /\ UNCHANGED <<submitted, reloads>>

\* One session, then the Data Vault.
NextStore ==
    \/ InitData
    \/ \E a \in BOOLEAN : StartQuiz(a)
    \/ \E qs \in SeqsBetween(Question, 0, MaxCount) : StartQuizDone(qs)
    \/ \E i \in Options : Answer(i)
    \/ \E m \in BOOLEAN : HandleNext(m)
    \/ \E t \in BagToSet(remediations), r \in SeqsBetween(Question, 0, MaxRemediation) :
           RemediationArrive(t, r)
    \/ \E t \in saves : SavePutHistory(t)
    \/ \E t \in saves : SaveFinish(t)
    \/ GoAnalytics
    \/ HandleExport
    \/ \E data \in Files(backup) : HandleImport(data)
    \/ FullImportStep
    \/ HandleImportDone

SpecStore == Init /\ [][NextStore]_vars

\* what fullImport is to leave under `key` for an accepted payload
Imported(data, key) ==
    IF key \in DOMAIN data THEN data[key]
    ELSE IF key = "studyPlan" THEN None ELSE EmptyMap

\* C6: a fullImport call on a payload that lacks history, bookmarks or the question
\* library is refused and writes nothing: the store is the one before the call and no
\* import is under way.
C6_InvalidImportWritesNothing ==
    [][(last' \in {"importBegin", "importRejected"}
            /\ ~(RequiredFields \subseteq DOMAIN The(submitted')))
        => (db' = db /\ importTask' = None /\ last' = "importRejected")]_vars

C6_Witness ==
    /\ last = "importRejected"
    /\ "bookmarks" \notin DOMAIN The(submitted)
    /\ "history" \in DOMAIN The(submitted)
    /\ db["history"] # Some(The(submitted)["history"])

\* C7: when the payload of the last export has been imported, exporting again gives
\* that payload.
C7_ExportImportRoundTrip ==
    [][(last' = "importDone" /\ imported' = backup)
        => BackupAllData(db', clock') = The(backup)]_vars

\* C8: when fullImport has returned true, each of the six slots holds the payload's
\* value and lifetimeStats holds the statistics of the payload's history.
C8_ImportOverwritesEverySlot ==
    [][(last' = "importDone")
        => /\ \A i \in 1..Len(ImportOrder) :
                 db'[ImportOrder[i]] = Some(Imported(The(imported'), ImportOrder[i]))
           /\ db'["lifetimeStats"] = Some(ComputeStats(The(imported')["history"], clock'))]_vars

-----------------------------------------------------------------------------
(* Failures of the generator *)

\* C11: a remediation request that fails is dropped: session, mirror, selection,
\* library, history and store are as before, nothing is shown to the student, and
\* the request is gone without another being issued.
C11_FailedRemediationDropped ==
    [][(last' = "remediationFail")
        => /\ session' = session
           /\ localStorage' = localStorage
           /\ selectedAnswer' = selectedAnswer
           /\ questionLibrary' = questionLibrary
           /\ history' = history
           /\ lifetimeStats' = lifetimeStats
           /\ db' = db
           /\ view' = view
           /\ alerted' = ""
           /\ BagCardinality(remediations') = BagCardinality(remediations) - 1]_vars

\* C11's case: the request failed while its session was in progress further on
C11_Witness ==
    /\ last = "remediationFail"
    /\ IsSome(session)
    /\ The(session).currentQuestionIndex >= 1
    /\ view = "quiz"

\* C12: a start whose generation request fails, or returns no question, creates no
\* session: the active session (none, or the earlier one), the library, the history,
\* the lifetime stats and the store are those before the attempt.
C12_FailedStartChangesNothing ==
    [][(last' \in {"startQuizFail", "startQuizEmpty"})
        => /\ session' = session
           /\ localStorage' = localStorage
           /\ selectedAnswer' = selectedAnswer
           /\ questionLibrary' = questionLibrary
           /\ history' = history
           /\ lifetimeStats' = lifetimeStats
           /\ db' = db
           /\ view' = view
           /\ isLoading' = None]_vars

\* C12's case: the request failed while an earlier session with a recorded answer
\* was still active
C12_Witness ==
    /\ last = "startQuizFail"
    /\ IsSome(session)
    /\ The(session).userAnswers # <<>>
    /\ questionLibrary # EmptyMap

-----------------------------------------------------------------------------
(* Start *)

\* C13: a successful start makes a fresh session the one active session: at least one
\* question, position 0, no recorded answer, mirrored as it is; no HistoricalSession
\* is produced for a replaced session; every question of the new session is in the
\* library afterwards, and one whose identifier was absent before is stored as
\* returned.
C13_StartCreatesFreshSession ==
    [][(last' = "startQuizDone")
        => /\ IsSome(session')
           /\ LET new == The(session') IN
              /\ Len(new.questions) \in 1..MaxCount
              /\ new.currentQuestionIndex = 0
              /\ new.userAnswers = <<>>
              /\ localStorage' = Some(new)
              /\ \A j \in 1..Len(new.questions) :
                    LET id == new.questions[j].id IN
                    /\ id \in DOMAIN questionLibrary'
                    /\ id \notin DOMAIN questionLibrary
                         => \E k \in 1..Len(new.questions) : questionLibrary'[id] = new.questions[k]
           /\ history' = history
           /\ lifetimeStats' = lifetimeStats
           /\ saves' = saves
           /\ db'["history"] = db["history"]
           /\ view' = "quiz"]_vars

\* C13's case: a second session was started while the first had not been completed
C13_Witness ==
    /\ last = "startQuizDone"
    /\ The(session).startTime = 2
    /\ selectedAnswer # Null
    /\ history = <<>>
    /\ saves = {}

-----------------------------------------------------------------------------
(* Bookmarks and the question library (App.tsx:135-141, 164-175) *)

\* SRSState of a card that was never rated; ease is written in hundredths
NewSRSState(cardId, nextReview) ==
    [cardId |-> cardId, nextReview |-> nextReview, interval |-> 0, ease |-> 230,
     repetitions |-> 0]

\* prev.filter(b => b.id !== id)
RECURSIVE WithoutId(_, _)
WithoutId(bs, id) ==
    IF bs = <<>> THEN <<>>
    ELSE IF bs[1].id = id THEN WithoutId(Tail(bs), id)
    ELSE <<bs[1]>> \o WithoutId(Tail(bs), id)

\* { ...map, [key]: value }
MapPut(map, key, value) ==
    [k \in DOMAIN map \cup {key} |-> IF k = key THEN value ELSE map[k]]

\* the header's bookmarks button
GoBookmarks ==
    /\ isReady /\ view # "bookmarks"
    /\ view' = "bookmarks"
    /\ last' = "setView"
    /\ alerted' = ""
    /\ UNCHANGED <<isReady, isLoading, history, questionLibrary, lifetimeStats, db, clock,
                   remediations, saves>>
    /\ UNCHANGED <<sessionVars, cardVars, storeVars, reloadVars>>

\* the questions a bookmark button is shown for: the current one of the QuestionCard,
\* and in the BookmarksView every bookmark
Bookmarkable ==
    IF CardShown
    THEN {The(session).questions[The(session).currentQuestionIndex + 1]}
    ELSE IF isReady /\ view = "bookmarks" THEN {bookmarks[i] : i \in 1..Len(bookmarks)}
    ELSE {}

\* a bookmark toggle that stores the question under its identifier whatever is there
ToggleBookmarkOverwrites(q) ==
    /\ q \in Bookmarkable
    /\ last' = "toggleBookmark"
    /\ alerted' = ""
    /\ IF \E i \in 1..Len(bookmarks) : bookmarks[i].id = q.id
       THEN /\ bookmarks' = WithoutId(bookmarks, q.id)
            /\ db' = SyncWrite(db, isReady, {"bookmarks"}, [bookmarks |-> bookmarks'])
            /\ UNCHANGED <<questionLibrary, srsStates>>
       ELSE /\ bookmarks' = Append(bookmarks, q)
            /\ questionLibrary' = MapPut(questionLibrary, q.id, q)
            /\ srsStates' = IF q.id \in DOMAIN srsStates THEN srsStates
                            ELSE MapPut(srsStates, q.id, NewSRSState(q.id, clock))
            /\ db' = SyncWrite(db, isReady, {"bookmarks", "questionLibrary", "srsStates"},
                               [bookmarks |-> bookmarks', questionLibrary |-> questionLibrary',
                                srsStates |-> srsStates'])
    /\ UNCHANGED <<view, isReady, isLoading, history, lifetimeStats, clock, remediations,
                   saves, masteryCards, studyPlan>>
    /\ UNCHANGED <<sessionVars, storeVars, reloadVars>>

\* a bookmark toggle that forgets the schedule state of a question it removes
ToggleBookmarkDropsState(q) ==
    /\ q \in Bookmarkable
    /\ last' = "toggleBookmark"
    /\ alerted' = ""
    /\ IF \E i \in 1..Len(bookmarks) : bookmarks[i].id = q.id
       THEN /\ bookmarks' = WithoutId(bookmarks, q.id)
            /\ srsStates' = [c \in DOMAIN srsStates \ {q.id} |-> srsStates[c]]
            /\ db' = SyncWrite(db, isReady, {"bookmarks", "srsStates"},
                               [bookmarks |-> bookmarks', srsStates |-> srsStates'])
            /\ UNCHANGED questionLibrary
       ELSE /\ bookmarks' = Append(bookmarks, q)
            /\ questionLibrary' = AddToLibrary(questionLibrary, <<q>>)
            /\ srsStates' = IF q.id \in DOMAIN srsStates THEN srsStates
                            ELSE MapPut(srsStates, q.id, NewSRSState(q.id, clock))
            /\ db' = SyncWrite(db, isReady, {"bookmarks", "questionLibrary", "srsStates"},
                               [bookmarks |-> bookmarks', questionLibrary |-> questionLibrary',
                                srsStates |-> srsStates'])
    /\ UNCHANGED <<view, isReady, isLoading, history, lifetimeStats, clock, remediations,
                   saves, masteryCards, studyPlan>>
    /\ UNCHANGED <<sessionVars, storeVars, reloadVars>>

\* a bookmark toggle that starts the schedule of every question it adds afresh
ToggleBookmarkResetsState(q) ==
    /\ q \in Bookmarkable
    /\ last' = "toggleBookmark"
    /\ alerted' = ""
    /\ IF \E i \in 1..Len(bookmarks) : bookmarks[i].id = q.id
       THEN /\ bookmarks' = WithoutId(bookmarks, q.id)
            /\ db' = SyncWrite(db, isReady, {"bookmarks"}, [bookmarks |-> bookmarks'])
            /\ UNCHANGED <<questionLibrary, srsStates>>
       ELSE /\ bookmarks' = Append(bookmarks, q)
            /\ questionLibrary' = AddToLibrary(questionLibrary, <<q>>)
            /\ srsStates' = MapPut(srsStates, q.id, NewSRSState(q.id, clock))
            /\ db' = SyncWrite(db, isReady, {"bookmarks", "questionLibrary", "srsStates"},
                               [bookmarks |-> bookmarks', questionLibrary |-> questionLibrary',
                                srsStates |-> srsStates'])
    /\ UNCHANGED <<view, isReady, isLoading, history, lifetimeStats, clock, remediations,
                   saves, masteryCards, studyPlan>>
    /\ UNCHANGED <<sessionVars, storeVars, reloadVars>>

\* a bookmark toggle whose new schedule state is never written to its slot
ToggleBookmarkUnsynced(q) ==
    /\ q \in Bookmarkable
    /\ last' = "toggleBookmark"
    /\ alerted' = ""
    /\ IF \E i \in 1..Len(bookmarks) : bookmarks[i].id = q.id
       THEN /\ bookmarks' = WithoutId(bookmarks, q.id)
            /\ db' = SyncWrite(db, isReady, {"bookmarks"}, [bookmarks |-> bookmarks'])
            /\ UNCHANGED <<questionLibrary, srsStates>>
       ELSE /\ bookmarks' = Append(bookmarks, q)
            /\ questionLibrary' = AddToLibrary(questionLibrary, <<q>>)
            /\ srsStates' = IF q.id \in DOMAIN srsStates THEN srsStates
                            ELSE MapPut(srsStates, q.id, NewSRSState(q.id, clock))
            /\ db' = SyncWrite(db, isReady, {"bookmarks", "questionLibrary"},
                               [bookmarks |-> bookmarks', questionLibrary |-> questionLibrary'])
    /\ UNCHANGED <<view, isReady, isLoading, history, lifetimeStats, clock, remediations,
                   saves, masteryCards, studyPlan>>
    /\ UNCHANGED <<sessionVars, storeVars, reloadVars>>

\* toggleBookmark(q)
ToggleBookmark(q) ==
    /\ q \in Bookmarkable
    /\ last' = "toggleBookmark"
    /\ alerted' = ""
    /\ IF \E i \in 1..Len(bookmarks) : bookmarks[i].id = q.id
       THEN /\ bookmarks' = WithoutId(bookmarks, q.id)
            /\ db' = SyncWrite(db, isReady, {"bookmarks"}, [bookmarks |-> bookmarks'])
            /\ UNCHANGED <<questionLibrary, srsStates>>
       ELSE /\ bookmarks' = Append(bookmarks, q)
            /\ questionLibrary' = AddToLibrary(questionLibrary, <<q>>)
            /\ srsStates' = IF q.id \in DOMAIN srsStates THEN srsStates
                            ELSE MapPut(srsStates, q.id, NewSRSState(q.id, clock))
            /\ db' = SyncWrite(db, isReady, {"bookmarks", "questionLibrary", "srsStates"},
                               [bookmarks |-> bookmarks', questionLibrary |-> questionLibrary',
                                srsStates |-> srsStates'])
    /\ UNCHANGED <<view, isReady, isLoading, history, lifetimeStats, clock, remediations,
                   saves, masteryCards, studyPlan>>
    /\ UNCHANGED <<sessionVars, storeVars, reloadVars>>

\* Sessions whose questions are bookmarked.
NextLibrary ==
    \/ InitData
    \/ GoSetup
    \/ GoBookmarks
    \/ \E a \in BOOLEAN : StartQuiz(a)
    \/ \E qs \in SeqsBetween(Question, 0, MaxCount) : StartQuizDone(qs)
    \/ \E i \in Options : Answer(i)
    \/ \E m \in BOOLEAN : HandleNext(m)
    \/ \E t \in BagToSet(remediations), r \in SeqsBetween(Question, 0, MaxRemediation) :
           RemediationArrive(t, r)
    \/ \E q \in Question : ToggleBookmark(q)

SpecLibrary == Init /\ [][NextLibrary]_vars

\* C14: an identifier that is in the question library stays in it with the Question
\* stored under it, whatever start, remediation arrival or bookmark toggle does; the
\* persisted library follows the same rule.
C14_LibraryFirstWriteWins ==
    [][/\ \A id \in DOMAIN questionLibrary :
            id \in DOMAIN questionLibrary' /\ questionLibrary'[id] = questionLibrary[id]
       /\ isReady =>
            LET old == DbGetOr(db, "questionLibrary", EmptyMap)
                new == DbGetOr(db', "questionLibrary", EmptyMap)
            IN \A id \in DOMAIN old : id \in DOMAIN new /\ new[id] = old[id]]_vars

\* C14's case: a question was bookmarked whose identifier the library holds with
\* another Question under it
C14_Witness ==
    /\ last = "toggleBookmark"
    /\ \E i \in 1..Len(bookmarks) :
          /\ bookmarks[i].id \in DOMAIN questionLibrary
          /\ questionLibrary[bookmarks[i].id] # bookmarks[i]

-----------------------------------------------------------------------------
(* Navigation inside a session *)

\* the step just taken moved the position of the session in progress
MoveStep ==
    /\ last' \in {"handlePrev", "handleNext", "handleNextForce"}
    /\ IsSome(session) /\ IsSome(session')
    /\ The(session').currentQuestionIndex # The(session).currentQuestionIndex

\* C15: navigation loses no choice.  A choice made with answer at a position is
\* recorded there when the position is left, by retreat as by advance; a recorded
\* answer is never altered while the session lasts; the position arrived at shows the
\* answer recorded there, if any; and an advance that does not complete the session
\* moves forward by exactly one.
C15_NavigationKeepsChoices ==
    /\ [][(MoveStep /\ answeredHere)
            => AnswerAt(The(session').userAnswers, The(session).currentQuestionIndex)
                   = selectedAnswer]_vars
    /\ [][(IsSome(session) /\ IsSome(session')
           /\ The(session').startTime = The(session).startTime)
            => \A p \in 0..(Len(The(session).userAnswers) - 1) :
                  AnswerAt(The(session).userAnswers, p) # Undefined
                  => AnswerAt(The(session').userAnswers, p)
                         = AnswerAt(The(session).userAnswers, p)]_vars
    /\ [][MoveStep
            => selectedAnswer' = Nullish(AnswerAt(The(session').userAnswers,
                                                  The(session').currentQuestionIndex))]_vars
    /\ [][(last' \in {"handleNext", "handleNextForce"} /\ CardShown
           /\ selectedAnswer # Null /\ IsSome(session'))
            => The(session').currentQuestionIndex
                   = The(session).currentQuestionIndex + 1]_vars

\* C16: retreat at a position p > 0 moves to p - 1 and selects the answer recorded
\* there, none if nothing is recorded; at position 0 it changes nothing; the question
\* list and the recorded answers are the same in both cases.
C16_RetreatMovesBackByOne ==
    [][(last' = "handlePrev")
        => /\ IsSome(session) /\ IsSome(session')
           /\ LET old == The(session)
                  new == The(session')
                  p == old.currentQuestionIndex
              IN /\ new.questions = old.questions
                 /\ new.userAnswers = old.userAnswers
                 /\ new.startTime = old.startTime
                 /\ p > 0 => /\ new.currentQuestionIndex = p - 1
                             /\ selectedAnswer' = Nullish(AnswerAt(old.userAnswers, p - 1))
                 /\ p = 0 => /\ session' = session
                             /\ selectedAnswer' = selectedAnswer
                             /\ localStorage' = localStorage
           /\ history' = history
           /\ view' = view]_vars

\* C16's case: a retreat from a position where a choice was pending arrived at an
\* answered position
C16_Witness ==
    /\ last = "handlePrev"
    /\ IsSome(session)
    /\ The(session).currentQuestionIndex = 0
    /\ Len(The(session).userAnswers) = 1
    /\ selectedAnswer = The(session).userAnswers[1]
    /\ selectedAnswer # The(session).questions[1].correctIndex

\* C17: answer never advances: session, position, question list and mirror are as
\* before; at a position that has a recorded answer the selection is that answer
\* and stays; and while no session is active the selection does not change.
C17_AnswerNeverAdvances ==
    /\ [][(last' = "answer")
            => /\ IsSome(session)
               /\ session' = session
               /\ localStorage' = localStorage
               /\ view' = view
               /\ history' = history
               /\ remediations' = remediations
               /\ selectedAnswer # Null => selectedAnswer' = selectedAnswer
               /\ LET recorded == AnswerAt(The(session).userAnswers,
                                           The(session).currentQuestionIndex)
                  IN recorded # Undefined
                       => (selectedAnswer = recorded /\ selectedAnswer' = recorded)]_vars
    /\ [][(session = None /\ isReady) => selectedAnswer' = selectedAnswer]_vars

\* C17's case: an option was clicked at a position whose answer had been recorded
C17_Witness ==
    /\ last = "answer"
    /\ IsSome(session)
    /\ The(session).currentQuestionIndex = 0
    /\ Len(The(session).userAnswers) >= 1
    /\ Len(The(session).questions) >= 2

\* C18: discard clears the active session and its mirror and produces no
\* HistoricalSession: history, lifetime stats, pending saves and store are as before.
C18_DiscardClearsWithoutHistory ==
    [][(last' = "discard")
        => /\ IsSome(session)
           /\ session' = None
           /\ localStorage' = None
           /\ history' = history
           /\ lifetimeStats' = lifetimeStats
           /\ saves' = saves
           /\ db' = db]_vars

\* C18's case: the session was discarded past its first position, with a remediation
\* request still in flight
C18_Witness ==
    /\ last = "discard"
    /\ session = None
    /\ remediations # EmptyBag
    /\ history = <<>>

\* ---------------------------------------------------------------------
\* Spaced repetition (App.updateSRS, SRSReview).
\*
\* ease is kept in hundredths (2.3 is 230, the floor 1.3 is 130), so that
\* the arithmetic of updateSRS is exact; the rounding of IEEE doubles is not
\* modelled.  Times are milliseconds, as Date.now() gives them.
\* ---------------------------------------------------------------------
DayMs == 86400000

\* Horizon of the model, in days: no review is scheduled beyond it.
MaxDays == 19

Ratings == {"again", "hard", "good", "easy"}

\* Math.ceil(a / b) for a >= 0, b > 0.
CeilDiv(a, b) == (a + b - 1) \div b

\* The state updateSRS assumes for a card that has none.
DefaultSRSState(cardId) ==
    [cardId |-> cardId, nextReview |-> 0, interval |-> 0, ease |-> 230,
     repetitions |-> 0]

DaysOf(ms) == ms \div DayMs

\* a lapse that leaves the interval as it was
RatedIntervalKeepsOnAgain(current, rating) ==
    IF rating = "again" THEN current.interval
    ELSE IF current.repetitions = 0 THEN 1
    ELSE IF current.repetitions = 1 THEN 6
    ELSE IF rating = "hard" THEN CeilDiv(current.interval * 120, 100)
    ELSE IF rating = "good" THEN CeilDiv(current.interval * current.ease, 100)
    ELSE CeilDiv(current.interval * current.ease * 150, 10000)

\* one growth factor, the ease, whatever the rating
RatedIntervalFlatFactor(current, rating) ==
    IF rating = "again" THEN 0
    ELSE IF current.repetitions = 0 THEN 1
    ELSE IF current.repetitions = 1 THEN 6
    ELSE CeilDiv(current.interval * current.ease, 100)

\* interval after a rating (days).
RatedInterval(current, rating) ==
    IF rating = "again" THEN 0
    ELSE IF current.repetitions = 0 THEN 1
    ELSE IF current.repetitions = 1 THEN 6
    ELSE IF rating = "hard" THEN CeilDiv(current.interval * 120, 100)
    ELSE IF rating = "good" THEN CeilDiv(current.interval * current.ease, 100)
    ELSE CeilDiv(current.interval * current.ease * 150, 10000)

\* an ease that "good" raises as well
RatedEaseRaisedByGood(current, rating) ==
    CASE rating = "again" -> Max(130, current.ease - 20)
      [] rating = "hard"  -> Max(130, current.ease - 15)
      [] OTHER            -> current.ease + 15

\* an ease without the floor
RatedEaseNoFloor(current, rating) ==
    CASE rating = "again" -> current.ease - 20
      [] rating = "hard"  -> current.ease - 15
      [] rating = "easy"  -> current.ease + 15
      [] OTHER            -> current.ease

\* ease after a rating (hundredths).
RatedEase(current, rating) ==
    CASE rating = "again" -> Max(130, current.ease - 20)
      [] rating = "hard"  -> Max(130, current.ease - 15)
      [] rating = "easy"  -> current.ease + 15
      [] OTHER            -> current.ease

RatedRepetitions(current, rating) ==
    IF rating = "again" THEN 0 ELSE current.repetitions + 1

\* The value updateSRS stores for the card.
UpdateSRSState(current, rating, now) ==
    [cardId      |-> current.cardId,
     nextReview  |-> now + RatedInterval(current, rating) * DayMs,
     interval    |-> RatedInterval(current, rating),
     ease        |-> RatedEase(current, rating),
     repetitions |-> RatedRepetitions(current, rating)]

CurrentSRSState(cardId) ==
    IF cardId \in DOMAIN srsStates THEN srsStates[cardId]
    ELSE DefaultSRSState(cardId)

\* dueSRSItems: the cards whose review time has come and whose question is
\* still in the library, or whose mastery card is stored.  The memo is
\* evaluated at the time of the rating.
DueSRSItems ==
    {c \in DOMAIN srsStates :
        /\ srsStates[c].nextReview <= clock
        /\ \/ c \in DOMAIN questionLibrary
           \/ \E p \in DOMAIN masteryCards :
                 \E i \in 1..Len(masteryCards[p]) : masteryCards[p][i].id = c}

\* Header button "SRS" / QuizSetup.onStartSRS.
GoSrs ==
    /\ isReady
    /\ view # "srs"
    /\ view' = "srs"
    /\ last' = "goSrs"
    /\ alerted' = ""
    /\ UNCHANGED <<isReady, isLoading, history, questionLibrary, lifetimeStats,
                   db, clock, remediations, saves, sessionVars, cardVars,
                   storeVars, reloadVars>>

\* SRSReview.handleRate -> App.updateSRS(cardId, rating), and the sync write
\* of srsStates.  The review stays open while its queue has an item left:
\* a card rated "again" is appended to the queue again.
UpdateSRS(cardId, rating) ==
    /\ isReady
    /\ view = "srs"
    /\ cardId \in DueSRSItems
    /\ RatedInterval(CurrentSRSState(cardId), rating) <= MaxDays - DaysOf(clock)
    /\ srsStates' = MapPut(srsStates, cardId,
                           UpdateSRSState(CurrentSRSState(cardId), rating, clock))
    /\ db' = SyncWrite(db, isReady, {"srsStates"}, [srsStates |-> srsStates'])
    /\ view' = IF rating = "again" \/ DueSRSItems # {cardId}
               THEN "srs" ELSE "setup"
    /\ last' = "updateSRS:" \o rating
    /\ alerted' = ""
    /\ UNCHANGED <<isReady, isLoading, history, questionLibrary, lifetimeStats,
                   clock, remediations, saves, sessionVars, bookmarks,
                   masteryCards, studyPlan, storeVars, reloadVars>>

\* A day goes by.
PassDay ==
    /\ DaysOf(clock) < MaxDays
    /\ clock' = clock + DayMs
    /\ last' = "passDay"
    /\ alerted' = ""
    /\ UNCHANGED <<view, isReady, isLoading, history, questionLibrary,
                   lifetimeStats, db, remediations, saves, sessionVars,
                   cardVars, storeVars, reloadVars>>

\* One session of one question supplies the card that is bookmarked, reviewed,
\* dropped from the bookmarks and bookmarked again.
NextSRS ==
    \/ InitData
    \/ session = None /\ StartQuiz(FALSE)
    \/ \E q \in Question : StartQuizDone(<<q>>)
    \/ \E q \in Question : ToggleBookmark(q)
    \/ Resume
    \/ GoBookmarks
    \/ GoSrs
    \/ \E c \in QIds, r \in Ratings : UpdateSRS(c, r)
    \/ PassDay

SpecSRS == Init /\ [][NextSRS]_vars

\* ---------------------------------------------------------------------
\* Ratings
\* ---------------------------------------------------------------------

\* C19: rating "again" leaves the rated card with repetitions 0, interval 0,
\* ease lowered by 0.2 but never below 1.3, and next review equal to the time
\* of the rating, so that the card is due at once; no other card changes.
C19_AgainResets ==
    [][(last' = "updateSRS:again")
        => \E c \in DueSRSItems :
             /\ srsStates' = [srsStates EXCEPT ![c] =
                    [cardId      |-> c,
                     nextReview  |-> clock',
                     interval    |-> 0,
                     ease        |-> IF @.ease - 20 < 130 THEN 130 ELSE @.ease - 20,
                     repetitions |-> 0]]
             /\ srsStates'[c].nextReview <= clock']_vars

\* C19's case: a card that had been rated "hard" and "good" on earlier days,
\* so that it had an interval and repetitions, was rated "again".
C19_Witness ==
    /\ last = "updateSRS:again"
    /\ \E c \in DOMAIN srsStates :
         /\ srsStates[c].ease = 195
         /\ srsStates[c].repetitions = 0
         /\ DaysOf(clock) >= 7

\* C20: after a rating of hard, good or easy the interval of the rated card
\* is 1 day if its repetitions were 0, 6 days if they were 1, and otherwise
\* the least whole number of days not below the old interval times f, with
\* f = 1.2 for hard, the ease before the rating for good and 1.5 times that
\* ease for easy; the next review is the time of the rating plus the new
\* interval in milliseconds.
C20_IntervalGrowth ==
    [][(last' \in {"updateSRS:hard", "updateSRS:good", "updateSRS:easy"})
        => \E c \in DueSRSItems :
             LET old == srsStates[c]
                 new == srsStates'[c]
                 \* old interval times f, in ten-thousandths of a day
                 grown == IF last' = "updateSRS:hard" THEN old.interval * 12000
                          ELSE IF last' = "updateSRS:good"
                               THEN old.interval * old.ease * 100
                          ELSE old.interval * old.ease * 150
             IN /\ old.repetitions = 0 => new.interval = 1
                /\ old.repetitions = 1 => new.interval = 6
                /\ old.repetitions >= 2
                     => /\ new.interval * 10000 >= grown
                        /\ (new.interval - 1) * 10000 < grown
                /\ new.nextReview = clock' + new.interval * 24 * 60 * 60 * 1000]_vars

\* C20's case: a card with two or more repetitions and an ease lowered to
\* the floor was rated "easy", which took its interval from 6 to 12 days.
C20_Witness ==
    /\ last = "updateSRS:easy"
    /\ \E c \in DOMAIN srsStates :
         /\ srsStates[c].repetitions >= 3
         /\ srsStates[c].interval = 12
         /\ srsStates[c].ease = 145

\* further cases of C20: "hard" and "good" at two or more repetitions
C20_WitnessHard ==
    /\ last = "updateSRS:hard"
    /\ \E c \in DOMAIN srsStates :
         srsStates[c].repetitions >= 3 /\ srsStates[c].interval = 8

C20_WitnessGood ==
    /\ last = "updateSRS:good"
    /\ \E c \in DOMAIN srsStates :
         srsStates[c].repetitions >= 3 /\ srsStates[c].interval > 6

\* C21: a rating of hard, good or easy raises the repetitions of the rated
\* card by exactly 1; its ease is lowered by 0.15 but not below 1.3 by hard,
\* raised by 0.15 by easy, whatever its value, and left as it was by good.
C21_RepetitionsAndEase ==
    [][(last' \in {"updateSRS:hard", "updateSRS:good", "updateSRS:easy"})
        => \E c \in DueSRSItems :
             LET old == srsStates[c]
                 new == srsStates'[c]
             IN /\ new.repetitions = old.repetitions + 1
                /\ last' = "updateSRS:hard"
                     => new.ease = (IF old.ease - 15 >= 130 THEN old.ease - 15 ELSE 130)
                /\ last' = "updateSRS:easy" => new.ease = old.ease + 15
                /\ last' = "updateSRS:good" => new.ease = old.ease]_vars

\* C21's case: "easy" took the ease above its starting value of 2.3 more
\* than once, on a card with repetitions
C21_Witness ==
    /\ last = "updateSRS:easy"
    /\ \E c \in DOMAIN srsStates :
         srsStates[c].ease >= 260 /\ srsStates[c].repetitions >= 2

\* further cases of C21: "hard" at the floor, and "good"
C21_WitnessHard ==
    /\ last = "updateSRS:hard"
    /\ \E c \in DOMAIN srsStates :
         srsStates[c].ease = 130 /\ srsStates[c].repetitions >= 2

C21_WitnessGood ==
    /\ last = "updateSRS:good"
    /\ \E c \in DOMAIN srsStates :
         srsStates[c].ease = 215 /\ srsStates[c].repetitions >= 2

\* C22: whatever ratings a card has received since its default state, its
\* ease is at least 1.3 and its interval is a whole number of days, not
\* negative.
C22_EaseFloorAndInterval ==
    \A c \in DOMAIN srsStates :
        /\ srsStates[c].ease >= 130
        /\ srsStates[c].interval \in Nat

\* C22's case: lapses and "hard" ratings pressed the ease onto the floor
\* while the card went on to an interval beyond 6 days
C22_Witness ==
    /\ last \in {"updateSRS:hard", "updateSRS:good", "updateSRS:easy"}
    /\ \E c \in DOMAIN srsStates :
         /\ srsStates[c].ease = 130
         /\ srsStates[c].interval > 6
         /\ srsStates[c].repetitions >= 3

\* ---------------------------------------------------------------------
\* The history log and the lifetime statistics
\* ---------------------------------------------------------------------

\* the history the store holds
PersistedHistory == DbGetOr(db, "history", <<>>)

\* C23: the history is an append-only log, newest first: a completion puts
\* exactly one record in front of the records already there and changes none
\* of them, and once every save has finished the stored history holds one
\* record for each completed session, also when a later completion's save
\* started before an earlier one's had finished.
C23_HistoryAppendOnly ==
    (isReady /\ saves = {}) => PersistedHistory = history

\* the totals of the sessions a stored history may hold: a single question,
\* and blocks of 20 (the largest block QuizSetup offers)
StatTotals == {<<1, 0>>, <<1, 1>>, <<20, 11>>, <<20, 12>>}

\* HistoricalSession records, as far as updateAnalytics reads them
StatEntries ==
    {[timestamp |-> t, totalQuestions |-> tot[1], correctAnswers |-> tot[2],
      timeTakenMs |-> 0] : t \in 1..2, tot \in StatTotals}

MaxHistory == 2

\* a backup file whose history is h
HistoryFile(h) == [MinimalPayload EXCEPT !.history = h]

\* One session, then the import of a backup with some history: fullImport
\* ends with updateAnalytics(data.history).
NextStats ==
    \/ InitData
    \/ \E a \in BOOLEAN : session = None /\ StartQuiz(a)
    \/ \E q \in Question : StartQuizDone(<<q>>)
    \/ \E i \in Options : Answer(i)
    \/ \E m \in BOOLEAN : HandleNext(m)
    \/ \E t \in BagToSet(remediations), r \in SeqsBetween(Question, 0, MaxRemediation) :
           RemediationArrive(t, r)
    \/ \E t \in saves : SavePutHistory(t)
    \/ \E t \in saves : SaveFinish(t)
    \/ GoAnalytics
    \/ \E h \in SeqsBetween(StatEntries, 0, MaxHistory) : HandleImport(HistoryFile(h))
    \/ FullImportStep
    \/ HandleImportDone

SpecStats == Init /\ [][NextStats]_vars

\* the sum of a field over the first n records of a history
RECURSIVE FieldTotal(_, _, _)
FieldTotal(h, field, n) ==
    IF n = 0 THEN 0 ELSE FieldTotal(h, field, n - 1) + h[n][field]

\* fullImport is at its call of updateAnalytics(data.history)
AtUpdateAnalytics ==
    /\ IsSome(importTask)
    /\ The(importTask).pc = Len(ImportOrder)

\* C24: the lifetime statistics computed from a history have all counts and
\* the accuracy 0 when the history is empty; otherwise totalQuestions and
\* totalCorrect are the sums over its records, the accuracy is
\* 100 * totalCorrect / totalQuestions rounded to the nearest whole number,
\* and firstSessionDate is the least timestamp of any record, in whatever
\* order the records are stored.
C24_StatsRecomputed ==
    [][(AtUpdateAnalytics /\ last' = "importWrite")
        => LET h     == The(importTask).data["history"]
               stats == The(db'["lifetimeStats"])
               q     == FieldTotal(h, "totalQuestions", Len(h))
               c     == FieldTotal(h, "correctAnswers", Len(h))
           IN /\ stats.totalQuestions = q
              /\ stats.totalCorrect = c
              /\ h = <<>> => stats.avgAccuracy = 0
              /\ h # <<>>
                   => /\ 2 * q * stats.avgAccuracy <= 200 * c + q
                      /\ 200 * c + q < 2 * q * (stats.avgAccuracy + 1)
                      /\ \E i \in 1..Len(h) : stats.firstSessionDate = h[i].timestamp
                      /\ \A i \in 1..Len(h) : stats.firstSessionDate <= h[i].timestamp]_vars

\* the same records in every order
Reorderings(h) ==
    {[i \in 1..Len(h) |-> h[f[i]]] : f \in Permutations(1..Len(h))}

\* C25: the lifetime statistics do not depend on the order of the records:
\* once session A and then session B have been appended, the statistics are
\* those computed from [B, A], and from the same records in any other order.
C25_AggregationOrderIndependent ==
    (isReady /\ saves = {} /\ history # <<>>)
        => \A h \in Reorderings(history) : lifetimeStats = Some(ComputeStats(h, clock))

\* the part of C25 that is about updateAnalytics alone: the statistics it
\* writes for an imported history are those of each reordering of it
C25_RecomputeOrderIndependent ==
    [][(AtUpdateAnalytics /\ last' = "importWrite")
        => \A h \in Reorderings(The(importTask).data["history"]) :
               db'["lifetimeStats"] = Some(ComputeStats(h, clock'))]_vars

\* ---------------------------------------------------------------------
\* The sync layer
\* ---------------------------------------------------------------------

\* the tracked collections, by the name of their slot
TrackedSlots == {"bookmarks", "masteryCards", "srsStates", "questionLibrary", "studyPlan"}

Tracked ==
    [bookmarks |-> bookmarks, masteryCards |-> masteryCards, srsStates |-> srsStates,
     questionLibrary |-> questionLibrary, studyPlan |-> studyPlan]

appVars ==
    <<view, isReady, isLoading, history, questionLibrary, lifetimeStats, db, clock,
      remediations, saves, sessionVars, cardVars, storeVars, reloads, mirroredAtReload,
      dissects, migrated, form>>

\* fetchWithRetry(fn) is called: retries = 0, and the first fn() is awaited
FetchCall ==
    /\ fetch.pc \in {"idle", "returned", "thrown"}
    /\ fetch' = [NoFetch EXCEPT !.pc = "attempt", !.attempts = 1]
    /\ last' = "fetchCall"
    /\ alerted' = ""
    /\ UNCHANGED appVars

\* fn() resolved: its value is returned
FetchResolve ==
    /\ fetch.pc = "attempt"
    /\ fetch' = [fetch EXCEPT !.pc = "returned"]
    /\ last' = "fetchReturn"
    /\ alerted' = ""
    /\ UNCHANGED appVars

\* a catch block that goes on retrying after the fifth retry
FetchRejectUnbounded(error) ==
    /\ fetch.pc = "attempt"
    /\ IF (IsRateLimit(error) \/ IsRpcError(error)) /\ fetch.retries <= MaxRetries
       THEN fetch' = [fetch EXCEPT !.pc = "sleep", !.caught = Some(error),
                                   !.sleeps = @ + 1,
                                   !.delay = InitialDelay * Pow2(fetch.retries)]
       ELSE fetch' = [fetch EXCEPT !.pc = "thrown", !.caught = Some(error),
                                   !.thrown = Some(error)]
    /\ last' = "fetchCatch"
    /\ alerted' = ""
    /\ UNCHANGED appVars

\* fn() rejected with `error`: the catch block either starts the sleep before
\* the next attempt (setTimeout with the delay, without its random part) or
\* throws the error to the caller
FetchReject(error) ==
    /\ fetch.pc = "attempt"
    /\ IF (IsRateLimit(error) \/ IsRpcError(error)) /\ fetch.retries < MaxRetries
       THEN fetch' = [fetch EXCEPT !.pc = "sleep", !.caught = Some(error),
                                   !.sleeps = @ + 1,
                                   !.delay = InitialDelay * Pow2(fetch.retries)]
       ELSE fetch' = [fetch EXCEPT !.pc = "thrown", !.caught = Some(error),
                                   !.thrown = Some(error)]
    /\ last' = "fetchCatch"
    /\ alerted' = ""
    /\ UNCHANGED appVars

\* the timer fired: retries++, and the loop calls fn() again
FetchWake ==
    /\ fetch.pc = "sleep"
    /\ fetch' = [fetch EXCEPT !.pc = "attempt", !.retries = @ + 1, !.attempts = @ + 1]
    /\ last' = "fetchRetry"
    /\ alerted' = ""
    /\ UNCHANGED appVars

NextFetch ==
    \/ FetchCall
    \/ FetchResolve
    \/ \E error \in ApiErrors : FetchReject(error)
    \/ FetchWake

SpecFetch == Init /\ [][NextFetch]_vars

\* Timers fire and requests are answered: a call that is under way takes its
\* next step.
FetchStep == FetchResolve \/ (\E error \in ApiErrors : FetchReject(error)) \/ FetchWake

SpecFetchFair == SpecFetch /\ WF_vars(FetchStep)

\* C27: a call whose attempts keep failing with retryable errors makes at most
\* 6 attempts, 5 of them resubmissions; before each resubmission it sleeps;
\* the error that surfaces is the one of the last attempt; and every call
\* ends, with a result or with an error.
C27_RetriesBoundedAndTerminate ==
    /\ [](fetch.pc # "idle"
            => /\ fetch.attempts = fetch.retries + 1
               /\ fetch.attempts <= 6
               /\ fetch.sleeps = fetch.retries + (IF fetch.pc = "sleep" THEN 1 ELSE 0)
               /\ fetch.pc = "thrown" => fetch.thrown = fetch.caught)
    /\ [][(fetch.attempts >= 1 /\ fetch'.attempts > fetch.attempts)
            => (fetch.pc = "sleep" /\ fetch'.attempts = fetch.attempts + 1)]_vars
    /\ (fetch.pc \in {"attempt", "sleep"}) ~> (fetch.pc \in {"returned", "thrown"})

\* C27's case: six attempts were rejected with rate-limit errors, and after
\* five sleeps the last one surfaced
C27_Witness ==
    /\ fetch.pc = "thrown"
    /\ fetch.attempts = 6
    /\ fetch.sleeps = 5
    /\ fetch.delay = 48000
    /\ The(fetch.thrown).status = "429"

\* C28: a permission error (HTTP 403) is never retried: the attempt that was
\* rejected with it is the last one, and the error surfaces at once, with no
\* sleep.
C28_PermissionErrorNotRetried ==
    [][(fetch.pc = "attempt" /\ last' = "fetchCatch"
        /\ The(fetch'.caught).status = "403")
        => (fetch'.pc = "thrown" /\ fetch'.thrown = fetch'.caught
            /\ fetch'.sleeps = fetch.sleeps)]_vars

\* the part of C28 that holds: a 403 error whose message has none of the
\* texts that fetchWithRetry takes for a retryable error surfaces at once
C28_PlainPermissionErrorNotRetried ==
    [][(fetch.pc = "attempt" /\ last' = "fetchCatch"
        /\ The(fetch'.caught) = [status |-> "403", rateText |-> FALSE, rpcText |-> FALSE])
        => (fetch'.pc = "thrown" /\ fetch'.thrown = fetch'.caught
            /\ fetch'.sleeps = fetch.sleeps)]_vars

\* ---------------------------------------------------------------------------
\* The life of a schedule state
\* ---------------------------------------------------------------------------

BookmarkAdded == bookmarks'[Len(bookmarks')]

\* C30: a bookmark toggle that adds a question without a schedule state
\* creates the default one (interval 0, ease 2.3, repetitions 0, due at the
\* time of the toggle) and touches no other entry; one that adds a question
\* that already has a schedule state leaves the whole index as it was.
C30_StateCreatedOnce ==
    [][(last' = "toggleBookmark" /\ Len(bookmarks') > Len(bookmarks)) =>
         IF BookmarkAdded.id \in DOMAIN srsStates
         THEN srsStates' = srsStates
         ELSE /\ DOMAIN srsStates' = DOMAIN srsStates \cup {BookmarkAdded.id}
              /\ \A c \in DOMAIN srsStates : srsStates'[c] = srsStates[c]
              /\ srsStates'[BookmarkAdded.id] =
                     [cardId |-> BookmarkAdded.id, nextReview |-> clock, interval |-> 0,
                      ease |-> 230, repetitions |-> 0]]_vars

\* a question is bookmarked again after its bookmark was removed, and keeps the
\* schedule its ratings gave it
C30_Witness ==
    /\ last = "toggleBookmark"
    /\ bookmarks # <<>>
    /\ \E c \in DOMAIN srsStates :
          /\ srsStates[c].repetitions >= 1
          /\ srsStates[c].interval >= 1
          /\ srsStates[c].ease # 230

\* a question is bookmarked for the first time
C30_WitnessFirst ==
    /\ last = "toggleBookmark"
    /\ bookmarks # <<>>
    /\ \E c \in DOMAIN srsStates :
          srsStates[c] = [cardId |-> c, nextReview |-> clock, interval |-> 0,
                          ease |-> 230, repetitions |-> 0]

\* ---------------------------------------------------------------------------
\* Mastery cards (App.tsx:177-184, part_002:181-210)
\* ---------------------------------------------------------------------------

MaxCardId == 2       \* identifiers the generator gives to its cards
MaxCards == 2        \* most cards in one response of the generator
MaxDissects == 2     \* most generateMasteryCards calls in flight

\* The card identifiers are strings chosen by the generator, as the question
\* identifiers are: identifier 1 is also the identifier of a question.
CardIds == 1..MaxCardId

\* cards.map(c => ({ ...c, parentId: question.id }))
CardsOf(ids, parentId) == [i \in DOMAIN ids |-> [id |-> ids[i], parentId |-> parentId]]

\* the responses JSON.parse(response.text || "[]") can give
Responses == SeqsBetween(CardIds, 0, MaxCards)

\* layers.forEach(card => updateSRS(card.id, 'again')): the updaters run in order,
\* each on the index the one before it returned
RECURSIVE SeedCards(_, _, _)
SeedCards(states, layers, now) ==
    IF layers = <<>> THEN states
    ELSE LET id == Head(layers).id
             current == IF id \in DOMAIN states THEN states[id] ELSE DefaultSRSState(id)
         IN SeedCards(MapPut(states, id, UpdateSRSState(current, "again", now)),
                      Tail(layers), now)

\* masteryCards && masteryCards.length > 0 (QuestionCard.tsx:333), layers.length > 0
\* (BookmarksView.tsx:131): the synthesis button stands in for the cards
HasLayers(id) == id \in DOMAIN masteryCards /\ Len(masteryCards[id]) > 0

\* The questions whose synthesis button is shown and enabled.  The button of the
\* QuestionCard belongs to an answered question, the one of the BookmarksView to
\* a bookmark; each is disabled while the request it started is awaited
\* (dissecting, dissectingIds).
Dissectable ==
    {q \in Question :
        /\ ~HasLayers(q.id)
        /\ ~\E r \in dissects : r.q.id = q.id /\ r.origin = view
        /\ \/ /\ CardShown /\ selectedAnswer # Null
              /\ q = The(session).questions[The(session).currentQuestionIndex + 1]
           \/ /\ isReady /\ view = "bookmarks"
              /\ \E i \in 1..Len(bookmarks) : bookmarks[i] = q}

\* dissectQuestion(q) up to its await: nothing is requested for a question that
\* has an entry in masteryCards
Dissect(q) ==
    /\ q \in Dissectable
    /\ Cardinality(dissects) < MaxDissects
    /\ dissects' = IF q.id \in DOMAIN masteryCards THEN dissects
                   ELSE dissects \cup {[q |-> q, origin |-> view]}
    /\ last' = "dissect"
    /\ alerted' = ""
    /\ UNCHANGED <<view, isReady, isLoading, history, questionLibrary, lifetimeStats, db,
                   clock, remediations, saves, sessionVars, cardVars, storeVars, reloads,
                   mirroredAtReload, fetch, migrated, form>>

\* a continuation that stores the cards and seeds none of them
DissectDoneUnseeded(r, ids) ==
    /\ r \in dissects
    /\ dissects' = dissects \ {r}
    /\ masteryCards' = MapPut(masteryCards, r.q.id, CardsOf(ids, r.q.id))
    /\ db' = SyncWrite(db, isReady, {"masteryCards"}, [masteryCards |-> masteryCards'])
    /\ last' = "dissectDone"
    /\ alerted' = ""
    /\ UNCHANGED <<view, isReady, isLoading, history, questionLibrary, lifetimeStats,
                   clock, remediations, saves, sessionVars, bookmarks, srsStates, studyPlan,
                   storeVars, reloads, mirroredAtReload, fetch, migrated, form>>

\* generateMasteryCards resolved: the cards are stored under the question and
\* each is rated "again"; the sync effects write the collections that changed
DissectDone(r, ids) ==
    /\ r \in dissects
    /\ dissects' = dissects \ {r}
    /\ masteryCards' = MapPut(masteryCards, r.q.id, CardsOf(ids, r.q.id))
    /\ srsStates' = SeedCards(srsStates, CardsOf(ids, r.q.id), clock)
    /\ db' = SyncWrite(db, isReady,
                       {"masteryCards"} \cup (IF ids = <<>> THEN {} ELSE {"srsStates"}),
                       [masteryCards |-> masteryCards', srsStates |-> srsStates'])
    /\ last' = "dissectDone"
    /\ alerted' = ""
    /\ UNCHANGED <<view, isReady, isLoading, history, questionLibrary, lifetimeStats,
                   clock, remediations, saves, sessionVars, bookmarks, studyPlan,
                   storeVars, reloads, mirroredAtReload, fetch, migrated, form>>

\* generateMasteryCards rejected: handleError(err).  A request is started from a
\* render whose isLoading is false in this specification, so only a 403 and a
\* 429 are shown.
DissectFail(r, kind) ==
    /\ r \in dissects
    /\ dissects' = dissects \ {r}
    /\ last' = "dissectFail"
    /\ alerted' = AlertOf(kind)
    /\ UNCHANGED <<view, isReady, isLoading, history, questionLibrary, lifetimeStats, db,
                   clock, remediations, saves, sessionVars, cardVars, storeVars, reloads,
                   mirroredAtReload, fetch, migrated, form>>

\* One session of one question, answered, bookmarked and dissected from the
\* question card and from the bookmarks.
NextCards ==
    \/ InitData
    \/ session = None /\ StartQuiz(FALSE)
    \/ \E q \in Question : StartQuizDone(<<q>>)
    \/ \E i \in Options : Answer(i)
    \/ \E q \in Question : ToggleBookmark(q)
    \/ GoBookmarks
    \/ GoSetup
    \/ Resume
    \/ \E q \in Question : Dissect(q)
    \/ \E r \in dissects : \E ids \in Responses : DissectDone(r, ids)
    \/ \E r \in dissects : \E kind \in ErrorKinds : DissectFail(r, kind)

SpecCards == Init /\ [][NextCards]_vars

\* the requests a step has answered
Answered == dissects \ dissects'

\* C31: when the cards of a question arrive, every one of them is in the SRS
\* index right after the step with interval 0, repetitions 0 and next review
\* at the time of the step, and is among the due items; a card whose
\* identifier had no schedule state and occurs once in the response has the
\* ease of the default state rated "again" (2.1).
C31_CardsSeeded ==
    [][last' = "dissectDone" =>
         \A r \in Answered :
            LET layers == masteryCards'[r.q.id] IN
            \A i \in 1..Len(layers) :
               LET c == layers[i].id IN
               /\ c \in DOMAIN srsStates'
               /\ srsStates'[c].interval = 0
               /\ srsStates'[c].repetitions = 0
               /\ srsStates'[c].nextReview = clock'
               /\ c \in DueSRSItems'
               /\ (c \notin DOMAIN srsStates /\ \A j \in 1..Len(layers) : layers[j].id = c => j = i)
                     => srsStates'[c].ease = 210]_vars

\* two cards with different identifiers have arrived for a question and stand in
\* the index as seeded
C31_Witness ==
    /\ last = "dissectDone"
    /\ \E p \in DOMAIN masteryCards :
          /\ Len(masteryCards[p]) = 2
          /\ masteryCards[p][1].id # masteryCards[p][2].id
          /\ \A i \in 1..2 : /\ masteryCards[p][i].id \in DOMAIN srsStates
                             /\ srsStates[masteryCards[p][i].id].repetitions = 0
                             /\ srsStates[masteryCards[p][i].id].ease = 210

\* C32: the cards stored for a question are never replaced or changed by a
\* later step, and a dissect request for a question that has an entry in
\* masteryCards starts no generator call.
C32_CardsImmutable ==
    [][/\ \A p \in DOMAIN masteryCards :
             p \in DOMAIN masteryCards' /\ masteryCards'[p] = masteryCards[p]
       /\ \A r \in dissects' \ dissects : r.q.id \notin DOMAIN masteryCards]_vars

\* the part of C32 about the guard alone: no request is started for a question
\* that has an entry in masteryCards
C32_NoCallWhenStored ==
    [][\A r \in dissects' \ dissects : r.q.id \notin DOMAIN masteryCards]_vars

\* the dissect button was pressed for a question whose stored response is empty
C32_WitnessNoCall ==
    /\ last = "dissect"
    /\ dissects = {}
    /\ \E p \in DOMAIN masteryCards : masteryCards[p] = <<>>

\* ---------------------------------------------------------------------------
\* Start-up on a store left by an earlier page load or an older version
\* ---------------------------------------------------------------------------

\* The stores initData can find: every slot is absent or holds a value that a
\* page load of this or an older version has written.  An older version wrote
\* no lifetime statistics; this version writes them from the history.
StoredDbs ==
    {[k \in Slots |->
         CASE k = "history" -> h
           [] k = "bookmarks" -> b
           [] k = "studyPlan" -> p
           [] k = "lifetimeStats" ->
                 IF stats THEN Some(ComputeStats(IF h = None THEN <<>> ELSE h[1], 0)) ELSE None
           [] OTHER -> IF k \in maps THEN Some(EmptyMap) ELSE None] :
       h \in {None} \cup {Some(x) : x \in SeqsBetween(StatEntries, 0, MaxHistory)},
       b \in {None} \cup {Some(x) : x \in SeqsBetween(Question, 0, 1)},
       p \in {None, Some(None)},
       stats \in BOOLEAN,
       maps \in SUBSET {"masteryCards", "srsStates", "questionLibrary"}}

\* the page is mounted on one of these stores
InitStored ==
    /\ db \in StoredDbs
    /\ view = "setup"
    /\ isReady = FALSE
    /\ session = None
    /\ isLoading = None
    /\ selectedAnswer = Null
    /\ bookmarks = <<>>
    /\ masteryCards = EmptyMap
    /\ history = <<>>
    /\ srsStates = EmptyMap
    /\ questionLibrary = EmptyMap
    /\ studyPlan = None
    /\ lifetimeStats = None
    /\ localStorage = None
    /\ clock = 0
    /\ remediations = EmptyBag
    /\ saves = {}
    /\ importTask = None
    /\ backup = None
    /\ imported = None
    /\ submitted = None
    /\ reloads = 0
    /\ mirroredAtReload = None
    /\ fetch = NoFetch
    /\ dissects = {}
    /\ migrated = FALSE
    /\ form = DefaultForm
    /\ answeredHere = FALSE
    /\ last = "mount"
    /\ alerted = ""

NextStored ==
    \/ InitData
    \/ GoBookmarks
    \/ GoSetup
    \/ \E q \in Question : ToggleBookmark(q)

SpecStored == InitStored /\ [][NextStored]_vars

\* C33: initData loads every collection from its slot, a missing slot giving
\* the empty list or map or the null study plan; when the lifetime-stats slot
\* is absent and the stored history is non-empty, the statistics are computed
\* from that history, and are in memory and in the slot after the step.
C33_LoadedWithDefaults ==
    [][(~isReady /\ isReady') =>
         /\ history' = (IF db["history"] = None THEN <<>> ELSE db["history"][1])
         /\ bookmarks' = (IF db["bookmarks"] = None THEN <<>> ELSE db["bookmarks"][1])
         /\ masteryCards' = (IF db["masteryCards"] = None THEN EmptyMap
                             ELSE db["masteryCards"][1])
         /\ srsStates' = (IF db["srsStates"] = None THEN EmptyMap ELSE db["srsStates"][1])
         /\ questionLibrary' = (IF db["questionLibrary"] = None THEN EmptyMap
                                ELSE db["questionLibrary"][1])
         /\ studyPlan' = (IF db["studyPlan"] = None THEN None ELSE db["studyPlan"][1])
         /\ (db["lifetimeStats"] # None => lifetimeStats' = db["lifetimeStats"])
         /\ (db["lifetimeStats"] = None /\ history' # <<>>) =>
               /\ lifetimeStats' = Some(ComputeStats(history', clock))
               /\ db'["lifetimeStats"] = lifetimeStats'
               /\ db'["history"] = db["history"]]_vars

\* initData has found a history of two sessions and no lifetime statistics and
\* no bookmarks slot, and has computed and stored the statistics
C33_Witness ==
    /\ last = "initData"
    /\ migrated
    /\ Len(history) = 2
    /\ bookmarks = <<>>
    /\ lifetimeStats = Some(ComputeStats(history, clock))
    /\ db["lifetimeStats"] = lifetimeStats

\* ---------------------------------------------------------------------------
\* The mirror of the active session
\* ---------------------------------------------------------------------------

\* C34: in every state the 'abdu_active_session' entry is present exactly when
\* a session is active, and it is then the JSON text of that session as it is
\* now (a hole of the answer array is written as null).
C34_MirrorFollowsSession ==
    /\ IsSome(localStorage) <=> IsSome(session)
    /\ IsSome(session) =>
          /\ The(localStorage).questions = The(session).questions
          /\ The(localStorage).currentQuestionIndex = The(session).currentQuestionIndex
          /\ The(localStorage).startTime = The(session).startTime
          /\ The(localStorage).autoReinforce = The(session).autoReinforce
          /\ Len(The(localStorage).userAnswers) = Len(The(session).userAnswers)
          /\ \A j \in 1..Len(The(session).userAnswers) :
                The(localStorage).userAnswers[j] =
                   (IF The(session).userAnswers[j] = Undefined THEN Null
                    ELSE The(session).userAnswers[j])

\* a remediation question has been appended to a session with a recorded
\* answer, and the entry holds the longer session
C34_Witness ==
    /\ last = "remediation"
    /\ IsSome(session) /\ IsSome(localStorage)
    /\ Len(The(session).questions) = 3
    /\ The(localStorage).questions = The(session).questions
    /\ Len(The(localStorage).userAnswers) >= 1
    /\ The(localStorage).currentQuestionIndex = 1

\* the last advance has completed the session and the entry is gone
C34_WitnessCleared ==
    /\ last = "handleNext"
    /\ session = None
    /\ localStorage = None
    /\ history # <<>>

\* ---------------------------------------------------------------------------
\* The QuizSetup form (QuizSetup.tsx:29-62)
\* ---------------------------------------------------------------------------

\* prev.filter(item => item !== x)
Deselect(seq, x) == SelectSeq(seq, LAMBDA item : item # x)

\* prev.includes(x)
Includes(seq, x) == \E i \in 1..Len(seq) : seq[i] = x

\* topics.trim(), on the texts of TopicTexts
Trim(text) == IF text = " " THEN "" ELSE text

\* the form is rendered
FormShown == isReady /\ view = "setup"

formFrame ==
    <<view, isReady, isLoading, history, questionLibrary, lifetimeStats, db, clock,
      remediations, saves, sessionVars, cardVars, storeVars, reloads, mirroredAtReload,
      fetch, dissects, migrated>>

\* toggleSpecialty(s)
ToggleSpecialty(s) ==
    /\ FormShown
    /\ form' = [form EXCEPT !.selectedSpecialties =
                   IF Includes(@, s) THEN Deselect(@, s) ELSE Append(@, s)]
    /\ last' = "toggleSpecialty"
    /\ alerted' = ""
    /\ UNCHANGED formFrame

\* an exam-type toggle that also removes the last selected type
ToggleExamTypeToEmpty(e) ==
    /\ FormShown
    /\ form' = [form EXCEPT !.selectedExamTypes =
                   IF Includes(@, e) THEN Deselect(@, e) ELSE Append(@, e)]
    /\ last' = "toggleExamType"
    /\ alerted' = ""
    /\ UNCHANGED formFrame

\* toggleExamType(e)
ToggleExamType(e) ==
    /\ FormShown
    /\ form' = [form EXCEPT !.selectedExamTypes =
                   IF Includes(@, e)
                   THEN (IF Len(@) > 1 THEN Deselect(@, e) ELSE @)
                   ELSE Append(@, e)]
    /\ last' = "toggleExamType"
    /\ alerted' = ""
    /\ UNCHANGED formFrame

\* the textarea's onChange: setTopics(e.target.value)
SetTopics(text) ==
    /\ FormShown
    /\ form' = [form EXCEPT !.topics = text]
    /\ last' = "setTopics"
    /\ alerted' = ""
    /\ UNCHANGED formFrame

\* setAutoReinforce(!autoReinforce)
SetAutoReinforce ==
    /\ FormShown
    /\ form' = [form EXCEPT !.autoReinforce = ~@]
    /\ last' = "setAutoReinforce"
    /\ alerted' = ""
    /\ UNCHANGED formFrame

\* handleStart(): the Generate button is disabled while isLoading
HandleStart ==
    /\ FormShown /\ isLoading = None
    /\ IF Len(form.selectedSpecialties) = 0 /\ Trim(form.topics) = ""
       THEN /\ alerted' = "Please select at least one specialty or provide custom topics."
            /\ last' = "handleStartRejected"
            /\ UNCHANGED <<formFrame, form>>
       ELSE IF Len(form.selectedExamTypes) = 0
       THEN /\ alerted' = "Please select at least one exam type."
            /\ last' = "handleStartRejected"
            /\ UNCHANGED <<formFrame, form>>
       ELSE StartQuiz(form.autoReinforce)

\* The form is filled in and submitted; the page is loaded again once.
NextSetup ==
    \/ InitData
    \/ \E s \in Specialties : ToggleSpecialty(s)
    \/ \E e \in ExamTypes : ToggleExamType(e)
    \/ \E text \in TopicTexts : SetTopics(text)
    \/ SetAutoReinforce
    \/ HandleStart
    \/ \E qs \in SeqsBetween(Question, 0, 1) : StartQuizDone(qs)
    \/ \E kind \in ErrorKinds : StartQuizFail(kind)
    \/ Reload

SpecSetup == Init /\ [][NextSetup]_vars

\* C35: the exam-type selection is never empty, whatever is toggled; startQuiz
\* is called only with at least one exam type and with a specialty or topics
\* that are not blank; and a Generate click with no specialty and blank topics
\* shows the alert and starts nothing.
C35_StartNeedsSelection ==
    /\ [](Len(form.selectedExamTypes) >= 1)
    /\ [][/\ last' = "startQuiz" =>
                /\ Len(form.selectedExamTypes) >= 1
                /\ \/ Len(form.selectedSpecialties) >= 1
                   \/ form.topics \notin {"", " "}
                /\ isLoading' = Some([autoReinforce |-> form.autoReinforce])
          /\ (last' = "handleStartRejected" \/ (last' = "startQuiz" /\ isLoading = None
                                                 /\ Len(form.selectedSpecialties) = 0
                                                 /\ form.topics \in {"", " "})) =>
                /\ isLoading' = None
                /\ session' = session
                /\ alerted' = "Please select at least one specialty or provide custom topics."]_vars

\* a Generate click with every specialty removed and topics of one blank has
\* been rejected
C35_Witness ==
    /\ last = "handleStartRejected"
    /\ form.selectedSpecialties = <<>>
    /\ form.topics = " "
    /\ isLoading = None

\* a start with no specialty and with topics is in flight
C35_WitnessTopics ==
    /\ last = "startQuiz"
    /\ form.selectedSpecialties = <<>>
    /\ form.topics = "Glaucoma"
    /\ IsSome(isLoading)

\* the only selected exam type has been toggled and is still selected
C35_WitnessLastType ==
    /\ last = "toggleExamType"
    /\ Len(form.selectedExamTypes) = 1
    /\ form.selectedExamTypes # <<"Step 2 CK">>

\* ---------------------------------------------------------------------------
\* The pending selection across sessions
\* ---------------------------------------------------------------------------

\* C36: a step that starts a session, discards it or completes it leaves no
\* pending selection, so the first question of a new session is shown
\* unanswered.
C36_SelectionClearedBetweenSessions ==
    [][(\/ last' = "startQuizDone"
        \/ last' = "discard"
        \/ (IsSome(session) /\ session' = None /\ last' \in {"handleNext", "handleNextForce"}))
       => selectedAnswer' = Null]_vars

\* ---------------------------------------------------------------------------
\* The import and the sync layer
\* ---------------------------------------------------------------------------

\* C37: when the page reloads after a successful import, each slot that the
\* sync layer writes still holds the imported value, whatever responses arrived
\* while the import was writing.
C37_ImportNotUndoneBySync ==
    [][(last' = "importDone")
        => \A key \in TrackedSlots :
              db'[key] = Some(IF key \in DOMAIN The(imported') THEN The(imported')[key]
                              ELSE IF key = "studyPlan" THEN None ELSE EmptyMap)]_vars

\* ---------------------------------------------------------------------------
\* The sync layer during start-up
\* ---------------------------------------------------------------------------

\* C38: no step changes a tracked slot unless the page is ready after it, and
\* the step that makes the page ready leaves every tracked slot that held a
\* value with that value, fills an absent one with the empty default, and has
\* in memory what each slot holds.
C38_NoSyncBeforeLoad ==
    [][/\ ~isReady' => \A key \in TrackedSlots : db'[key] = db[key]
       /\ (~isReady /\ isReady') =>
             /\ \A key \in TrackedSlots :
                   db'[key] = (IF db[key] # None THEN db[key]
                               ELSE IF key = "bookmarks" THEN Some(<<>>)
                               ELSE IF key = "studyPlan" THEN Some(None)
                               ELSE Some(EmptyMap))
             /\ db'["bookmarks"] = Some(bookmarks')
             /\ db'["masteryCards"] = Some(masteryCards')
             /\ db'["srsStates"] = Some(srsStates')
             /\ db'["questionLibrary"] = Some(questionLibrary')
             /\ db'["studyPlan"] = Some(studyPlan')]_vars

\* the page has started on a store that held a bookmark, and the bookmark is in
\* memory and still in its slot
C38_Witness ==
    /\ last = "initData"
    /\ isReady
    /\ Len(bookmarks) = 1
    /\ db["bookmarks"] = Some(bookmarks)
    /\ Len(history) = 1

\* ---------------------------------------------------------------------------
\* The shape of the active session
\* ---------------------------------------------------------------------------

\* C39: an active session has at least one question and its position is an
\* index of its question list.
C39_PositionValid ==
    IsSome(session) =>
       /\ Len(The(session).questions) >= 1
       /\ The(session).currentQuestionIndex >= 0
       /\ The(session).currentQuestionIndex < Len(The(session).questions)

\* after a retreat the session stands at its first question with a second
\* question recorded as answered
C39_Witness ==
    /\ last = "handlePrev"
    /\ IsSome(session)
    /\ The(session).currentQuestionIndex = 0
    /\ Len(The(session).questions) >= 2
    /\ Len(The(session).userAnswers) >= 1

\* a remediation question has arrived while the session stands at its last
\* question
C39_WitnessAppended ==
    /\ last = "remediation"
    /\ IsSome(session)
    /\ The(session).currentQuestionIndex = Len(The(session).questions) - 2
    /\ The(session).currentQuestionIndex >= 1

\* the answer recorded at position p of the active session is an option
Recorded(p) ==
    /\ p < Len(The(session).userAnswers)
    /\ The(session).userAnswers[p + 1] \in Options

\* C40: every position below the current one of an active session has a
\* recorded answer; the advance that completes a session is taken at the last
\* position with an option selected, so the session it files has an answer for
\* every question, appended ones included; and every filed session has
\* correctAnswers <= totalQuestions.
C40_AnsweredBelowPosition ==
    /\ [](IsSome(session) =>
            \A p \in 0..(The(session).currentQuestionIndex - 1) : Recorded(p))
    /\ [](\A i \in 1..Len(history) :
            history[i].correctAnswers >= 0
            /\ history[i].correctAnswers <= history[i].totalQuestions)
    /\ [][(IsSome(session) /\ session' = None /\ Len(history') = Len(history) + 1) =>
             /\ The(session).currentQuestionIndex = Len(The(session).questions) - 1
             /\ selectedAnswer \in Options
             /\ \A p \in 0..(Len(The(session).questions) - 2) : Recorded(p)
             /\ history'[1].totalQuestions = Len(The(session).questions)
             /\ history'[1].correctAnswers =
                   Cardinality({p \in 0..(Len(The(session).questions) - 1) :
                                   (IF p = The(session).currentQuestionIndex THEN selectedAnswer
                                    ELSE The(session).userAnswers[p + 1])
                                   = The(session).questions[p + 1].correctIndex})]_vars

\* a session of three questions, the last one appended by a remediation
\* response, has been completed and filed
C40_Witness ==
    /\ last \in {"handleNext", "handleNextForce"}
    /\ session = None
    /\ history # <<>>
    /\ history[1].totalQuestions = 3
    /\ history[1].correctAnswers = 2

====
